---------------------------- MODULE Spec2Model ----------------------------
(***************************************************************************)
(* A model of the dynamic-form engine of sus-project_forms_app             *)
(* (backend/app): the version registry with its auto-upgrade of project    *)
(* assignments (crud.py), the canonicalizer (utils.py) and answer          *)
(* ingestion with its custom-question block (main.py, crud.py).            *)
(*                                                                         *)
(* The store is the committed database state.  A handler that commits     *)
(* more than once is modelled with one action per commit, so that the      *)
(* states between two commits are states of the model, exactly as they    *)
(* are visible to other sessions.                                          *)
(***************************************************************************)
EXTENDS Integers, Sequences, FiniteSets, TLC

VARIABLES
    \* ---- version registry (crud.py, models.py) ----
    projects,               \* ids of the rows of table projects
    question_sets,          \* rows of table question_sets
    project_question_sets,  \* rows of table project_question_sets
    next_qs_id,             \* the id sequence of question_sets
    writer,                 \* per session running create_question_set: its position
    response,               \* what the handler that finished last answered
    \* ---- uuid4 (utils.py, crud.py, main.py) ----
    uuid_next,              \* the latest uuid given out
    \* ---- canonicalization of one payload, twice (utils.py) ----
    canon,                  \* the payload, and its first and second canonical form
    \* ---- answer ingestion (main.py, crud.py) ----
    project,                \* projects row of the project: name, focalpoint_code
    custom_questions,       \* projects.custom_questions of the project
    records,                \* the records table of the project
    ingest,                 \* per session serving a request: its locals
    \* ---- the question made from one posted answer (main.py) ----
    infer,                  \* the key and value posted, the question and value made
    \* ---- invites and registration (crud.py, main.py) ----
    invites,                \* rows of table invites, by key
    users,                  \* rows of table users
    registration,           \* per session serving POST /api/register: its locals
    \* ---- cookie sessions (auth.py) ----
    sessions,               \* rows of table sessions
    next_token,             \* the next token new_key gives out
    utcnow,                 \* datetime.utcnow()
    auth,                   \* the last request and what get_current_user answered
    \* ---- review of a record (crud.py update_record, review_record) ----
    record,                 \* the row of table records
    record_sessions,        \* per request: the Record object its session loaded
    record_commits,         \* the number of commits, the value _utcnow gives next
    \* ---- rate limiter (middleware.py) ----
    limiter_hits,           \* _SlidingWindowLimiter._hits: key -> deque of times
    clock,                  \* time.time()
    allowed,                \* per key, the times of every request allow let pass
    limited,                \* the last request and the answer of dispatch
    \* ---- access to projects (crud.py accessible_projects_query) ----
    project_rows,           \* table projects: id -> closed, deleted_at set
    user_project_access,    \* table user_project_access: user -> assigned, banned
    served                  \* the last request on a project and its answer

regVars == <<projects, question_sets, project_question_sets, next_qs_id, writer,
             response>>

canonVars == <<canon>>

ingestVars == <<project, custom_questions, records, ingest>>

inferVars == <<infer>>

inviteVars == <<invites, users, registration>>

\* The variables of the models added after the first five.
sessionVars == <<sessions, next_token, utcnow, auth>>

reviewVars == <<record, record_sessions, record_commits>>

limiterVars == <<limiter_hits, clock, allowed, limited>>

accessVars == <<project_rows, user_project_access, served>>

auxVars == <<inviteVars, sessionVars, reviewVars, limiterVars, accessVars>>

vars == <<regVars, uuid_next, canonVars, ingestVars, inferVars, auxVars>>

\* What an operation of the registry leaves alone.
RegFrame == UNCHANGED <<uuid_next, canonVars, ingestVars, inferVars, auxVars>>

\* What a run of the canonicalizer leaves alone.
CanonFrame == UNCHANGED <<regVars, ingestVars, inferVars, auxVars>>

\* What a request of the ingestion model leaves alone.
IngestFrame == UNCHANGED <<regVars, canonVars, inferVars, auxVars>>

\* What the making of a question from a posted answer leaves alone.
InferFrame == UNCHANGED <<regVars, canonVars, ingestVars, auxVars>>

\* The variables of the first five models.
coreVars == <<regVars, uuid_next, canonVars, ingestVars, inferVars>>

\* What a registration leaves alone.
InviteFrame == UNCHANGED <<coreVars, sessionVars, reviewVars, limiterVars, accessVars>>

\* What a request of the session model leaves alone.
SessionFrame == UNCHANGED <<coreVars, inviteVars, reviewVars, limiterVars, accessVars>>

\* What a request on a record leaves alone.
ReviewFrame == UNCHANGED <<coreVars, inviteVars, sessionVars, limiterVars, accessVars>>

\* What the rate limiter leaves alone.
LimiterFrame == UNCHANGED <<coreVars, inviteVars, sessionVars, reviewVars, accessVars>>

\* What a request on a project's access leaves alone.
AccessFrame == UNCHANGED <<coreVars, inviteVars, sessionVars, reviewVars, limiterVars>>

-----------------------------------------------------------------------------
(* Bounds of the registry model. *)

\* Number of question-set versions ever created (ids 1..MaxVersions).
MaxVersions == 3

\* The project rows that can exist (ids given out in this order).
ProjectIds == {1, 2}

\* Lengths of the id lists given to assign_project_question_sets.
AssignLengths == {0, 1, 2}

\* Concurrent sessions that run create_question_set.
Writers == {"w1", "w2"}

DEFAULT_QUESTION_SET_NAME == "default"

\* Names a version can be created under.
Names == {DEFAULT_QUESTION_SET_NAME, "daily"}

\* Raw payloads handed to create_question_set (abstract documents).
Payloads == {"docA"}

-----------------------------------------------------------------------------
(* Helpers over the tables. *)

\* The row of question_sets with primary key id (db.get), as a set of 0 or 1 rows.
QsRows(id) == {q \in question_sets : q.id = id}

\* The name of the version with this id; "" when no such row exists.
NameOf(id) == IF QsRows(id) = {} THEN "" ELSE (CHOOSE q \in QsRows(id) : TRUE).name

\* Rows of project_question_sets of one project.
LinksOf(tbl, p) == {r \in tbl : r.project_id = p}

\* uq_project_question_set: (project_id, question_set_id) is unique.
UniqueOk(tbl) ==
    \A r1, r2 \in tbl :
        (r1.project_id = r2.project_id /\ r1.question_set_id = r2.question_set_id)
            => r1 = r2

\* Foreign keys of project_question_sets.
ForeignKeysOk(tbl) ==
    \A r \in tbl : r.project_id \in projects /\ QsRows(r.question_set_id) # {}

\* latest_question_set_by_name ordered by created_at ascending.
LatestByName_Oldest(name) ==
    LET rows == {q \in question_sets : q.name = name}
    IN  IF rows = {} THEN {}
        ELSE {CHOOSE q \in rows : \A o \in rows : q.created_at <= o.created_at}

\* latest_question_set_by_name: greatest created_at among the rows with the name.
LatestByName(name) ==
    LET rows == {q \in question_sets : q.name = name}
    IN  IF rows = {} THEN {}
        ELSE {CHOOSE q \in rows : \A o \in rows : o.created_at <= q.created_at}

\* Rows of a table that reference a version with this name.
RowsOfName(tbl, name) == {r \in tbl : NameOf(r.question_set_id) = name}

\* A session outside create_question_set.  While inside, name and qs are the
\* call's name and the id of the version it inserted.
IdleWriter == [pc |-> "idle", name |-> "", qs |-> 0]

\* The answer of a handler: the operation and its HTTP status.
Response(op, status) == [op |-> op, status |-> status]

-----------------------------------------------------------------------------
(* Initial state: after startup, which seeds the default question set. *)

RegInit ==
    /\ projects = {}
    /\ question_sets =
          {[id |-> 1, name |-> DEFAULT_QUESTION_SET_NAME, created_at |-> 1, data |-> "docA"]}
    /\ project_question_sets = {}
    /\ next_qs_id = 2
    /\ writer = [w \in Writers |-> IdleWriter]
    /\ response = Response("startup", 200)

-----------------------------------------------------------------------------
(* create_project: a new project row, assigned the latest default set at   *)
(* position 0.                                                             *)

create_project(p) ==
    /\ p = Cardinality(projects) + 1   \* the id sequence of projects
    /\ projects' = projects \cup {p}
    /\ project_question_sets' =
          project_question_sets \cup
             {[project_id |-> p, question_set_id |-> q.id, position |-> 0] :
                 q \in LatestByName(DEFAULT_QUESTION_SET_NAME)}
    /\ response' = Response("create_project", 200)
    /\ UNCHANGED <<question_sets, next_qs_id, writer>>
    /\ RegFrame

(* assign_project_question_sets: delete the project's rows, insert one per *)
(* listed id at its index, commit.  The commit fails (and the transaction  *)
(* rolls back) when the list repeats an id or names an absent version.     *)

\* The rows of assign_project_question_sets without enumerate: all at 0.
AssignRows_AllAtZero(p, ids) ==
    {[project_id |-> p, question_set_id |-> ids[i], position |-> 0] :
        i \in 1..Len(ids)}

AssignRows(p, ids) ==
    {[project_id |-> p, question_set_id |-> ids[i], position |-> i - 1] :
        i \in 1..Len(ids)}

AssignCommits(p, ids) ==
    /\ \A i, j \in 1..Len(ids) : ids[i] = ids[j] => i = j
    /\ \A i \in 1..Len(ids) : QsRows(ids[i]) # {}

assign_project_question_sets(p, ids) ==
    /\ p \in projects
    /\ project_question_sets' =
          IF AssignCommits(p, ids)
          THEN (project_question_sets \ LinksOf(project_question_sets, p))
                   \cup AssignRows(p, ids)
          ELSE project_question_sets
    /\ response' = Response("assign_project_question_sets",
                            IF AssignCommits(p, ids) THEN 200 ELSE 500)
    /\ UNCHANGED <<projects, question_sets, next_qs_id, writer>>
    /\ RegFrame

(* delete_question_set: 404 when absent; else delete the rows referencing  *)
(* the version and the version.                                            *)

\* delete_question_set deleting by name instead of by id.
delete_question_set_ByName(id) ==
    /\ IF QsRows(id) = {}
       THEN /\ UNCHANGED <<question_sets, project_question_sets>>
            /\ response' = Response("delete_question_set", 404)
       ELSE /\ question_sets' = {q \in question_sets : q.name # NameOf(id)}
            /\ project_question_sets' =
                  {r \in project_question_sets : NameOf(r.question_set_id) # NameOf(id)}
            /\ response' = Response("delete_question_set", 200)
    /\ UNCHANGED <<projects, next_qs_id, writer>>
    /\ RegFrame

delete_question_set(id) ==
    /\ IF QsRows(id) = {}
       THEN /\ UNCHANGED <<question_sets, project_question_sets>>
            /\ response' = Response("delete_question_set", 404)
       ELSE /\ question_sets' = question_sets \ QsRows(id)
            /\ project_question_sets' =
                  {r \in project_question_sets : r.question_set_id # id}
            /\ response' = Response("delete_question_set", 200)
    /\ UNCHANGED <<projects, next_qs_id, writer>>
    /\ RegFrame

-----------------------------------------------------------------------------
(* create_question_set, lines 178-181: canonicalize, insert the version,   *)
(* commit.  From here on the new version is visible to every session.      *)

\* create_question_set writing over the versions of the name instead of
\* leaving them alone.
CreateQuestionSetInsert_InPlace(w, name, raw) ==
    /\ writer[w].pc = "idle"
    /\ next_qs_id <= MaxVersions
    /\ question_sets' =
          {IF q.name = name THEN [q EXCEPT !.created_at = next_qs_id, !.data = raw] ELSE q :
              q \in question_sets}
          \cup {[id |-> next_qs_id, name |-> name, created_at |-> next_qs_id, data |-> raw]}
    /\ next_qs_id' = next_qs_id + 1
    /\ writer' = [writer EXCEPT ![w] =
          [pc |-> "upgrade", name |-> name, qs |-> next_qs_id]]
    /\ UNCHANGED <<projects, project_question_sets, response>>
    /\ RegFrame

CreateQuestionSetInsert(w, name, raw) ==
    /\ writer[w].pc = "idle"
    /\ next_qs_id <= MaxVersions
    /\ question_sets' = question_sets \cup
          {[id |-> next_qs_id, name |-> name, created_at |-> next_qs_id, data |-> raw]}
    /\ next_qs_id' = next_qs_id + 1
    /\ writer' = [writer EXCEPT ![w] =
          [pc |-> "upgrade", name |-> name, qs |-> next_qs_id]]
    /\ UNCHANGED <<projects, project_question_sets, response>>
    /\ RegFrame

(* create_question_set, lines 183-208: the auto-upgrade.                   *)

\* The ids of the other versions, whatever their name.
OldIds_AnyName(name, qs) == {q.id : q \in {o \in question_sets : o.id # qs}}

\* Lines 184-189: ids of the other versions with the name.
OldIds(name, qs) == {q.id : q \in {o \in question_sets : o.name = name /\ o.id # qs}}

\* Lines 192-194: the assignment rows referencing those versions.
OldRows(name, qs) ==
    {r \in project_question_sets : r.question_set_id \in OldIds(name, qs)}

\* Lines 197-201: the session does not autoflush (db.py line 26), so this
\* query reads the stored table, without the rewrites of earlier iterations.
ExistsNew(row, qs) ==
    \E r \in project_question_sets :
        r.project_id = row.project_id /\ r.question_set_id = qs

\* Lines 203-206: the rows deleted and the rows rewritten by the loop.
DeletedRows(name, qs) == {r \in OldRows(name, qs) : ExistsNew(r, qs)}

RewrittenRows(name, qs) == OldRows(name, qs) \ DeletedRows(name, qs)

\* The table the flush at line 208 asks the database for.
UpgradedTable(name, qs) ==
    (project_question_sets \ OldRows(name, qs)) \cup
       {[r EXCEPT !.question_set_id = qs] : r \in RewrittenRows(name, qs)}

\* The UPDATEs of line 206 hit uq_project_question_set when two rows of one
\* project are rewritten to the same version.
UpgradeCommits(name, qs) ==
    \A r1, r2 \in RewrittenRows(name, qs) : r1.project_id = r2.project_id => r1 = r2

CreateQuestionSetUpgrade(w) ==
    LET name == writer[w].name
        qs == writer[w].qs
    IN
    /\ writer[w].pc = "upgrade"
    /\ writer' = [writer EXCEPT ![w] = IdleWriter]
    /\ IF QsRows(qs) = {}
       THEN \* qs.id of a row deleted meanwhile: ObjectDeletedError
            /\ UNCHANGED project_question_sets
            /\ response' = Response("create_question_set", 500)
       ELSE IF UpgradeCommits(name, qs)
       THEN /\ project_question_sets' = UpgradedTable(name, qs)
            /\ response' = Response("create_question_set", 200)
       ELSE \* IntegrityError at commit: the rewrite is rolled back
            /\ UNCHANGED project_question_sets
            /\ response' = Response("create_question_set", 500)
    /\ UNCHANGED <<projects, question_sets, next_qs_id>>
    /\ RegFrame

(* admin_update_question_set, main.py 802-817: 404 when the version is    *)
(* absent; else a new version under the name of the existing one.  The    *)
(* auto-upgrade follows as for create_question_set.                        *)

admin_update_question_set(w, id, raw) ==
    IF QsRows(id) = {}
    THEN /\ writer[w].pc = "idle"
         /\ response' = Response("admin_update_question_set", 404)
         /\ UNCHANGED <<projects, question_sets, project_question_sets, next_qs_id,
                        writer>>
         /\ RegFrame
    ELSE CreateQuestionSetInsert(w, NameOf(id), raw)

-----------------------------------------------------------------------------
\* Lists of version ids an administrator can submit (ids 1..MaxVersions).
AssignLists ==
    UNION {[1..n -> 1..MaxVersions] : n \in AssignLengths}

RegNext ==
    \/ \E p \in ProjectIds : create_project(p)
    \/ \E p \in ProjectIds, ids \in AssignLists : assign_project_question_sets(p, ids)
    \/ \E id \in 1..MaxVersions : delete_question_set(id)
    \/ \E w \in Writers, name \in Names, raw \in Payloads :
          CreateQuestionSetInsert(w, name, raw)
    \/ \E w \in Writers : CreateQuestionSetUpgrade(w)
    \/ \E w \in Writers, id \in 1..MaxVersions, raw \in Payloads :
          admin_update_question_set(w, id, raw)

-----------------------------------------------------------------------------
(***************************************************************************)
(* The canonicalizer (utils.py).  A string is a sequence of one-character  *)
(* strings, so that strip, splitlines and join are computed, not assumed.  *)
(* A question is a record; a key its dict does not hold has the value      *)
(* Absent (for id: NoId).  Ids chosen by clients are negative, ids made by *)
(* uuid4 are the positive numbers, given out in order by uuid_next.        *)
(***************************************************************************)

\* Longest string among the option inputs.
MaxStrLen == 2

\* Longest option list among the inputs.
MaxListLen == 2

\* The characters of the option inputs: a letter, a blank, a line break.
Chars == {"a", " ", "\n"}

IsSpace(c) == c \in {" ", "\n"}

SetMin(S) == CHOOSE x \in S : \A y \in S : x <= y

SetMax(S) == CHOOSE x \in S : \A y \in S : y <= x

\* str.strip()
Strip(s) ==
    LET keep == {i \in 1..Len(s) : ~IsSpace(s[i])}
    IN  IF keep = {} THEN <<>> ELSE SubSeq(s, SetMin(keep), SetMax(keep))

\* str.splitlines()
RECURSIVE SplitLines(_)
SplitLines(s) ==
    IF s = <<>> THEN <<>>
    ELSE LET breaks == {i \in 1..Len(s) : s[i] = "\n"}
         IN  IF breaks = {} THEN <<s>>
             ELSE <<SubSeq(s, 1, SetMin(breaks) - 1)>>
                     \o SplitLines(SubSeq(s, SetMin(breaks) + 1, Len(s)))

\* [x.strip() for x in seq]
StripAll(seq) == [i \in 1..Len(seq) |-> Strip(seq[i])]

NonEmpty(x) == x # <<>>

\* _split_nonempty_lines
split_nonempty_lines(text) == SelectSeq(StripAll(SplitLines(text)), NonEmpty)

\* "".join(opts)
RECURSIVE Join(_)
Join(seq) == IF seq = <<>> THEN <<>> ELSE Head(seq) \o Join(Tail(seq))

Absent == [k |-> "absent"]

StrVal(s) == [k |-> "str", s |-> s]

ListVal(l) == [k |-> "list", l |-> l]

DictVal(d) == [k |-> "dict", d |-> d]

\* A string holding JSON text; parsed is what json.loads makes of it:
\* DictVal(..), ListVal(..) for a non-object, Absent when it raises.
JsonText(parsed) == [k |-> "json", parsed |-> parsed]

\* Any other value (a number, a boolean).
OtherVal == [k |-> "other"]

NoId == 0

\* The options of a dropdown with every list trimmed element by element.
NormalizedOptions_Elementwise(opts) ==
    IF opts.k = "str" THEN ListVal(split_nonempty_lines(opts.s))
    ELSE IF opts.k = "list" THEN ListVal(SelectSeq(StripAll(opts.l), NonEmpty))
    ELSE opts

\* normalize_dropdown_options, lines 69-78: the options of a dropdown.
NormalizedOptions(opts) ==
    IF opts.k = "str" THEN ListVal(split_nonempty_lines(opts.s))
    ELSE IF opts.k = "list" THEN
        IF opts.l # <<>> /\ \A i \in 1..Len(opts.l) : Len(opts.l[i]) <= 1
        THEN ListVal(split_nonempty_lines(Join(opts.l)))
        ELSE ListVal(SelectSeq(StripAll(opts.l), NonEmpty))
    ELSE opts

\* normalize_dropdown_options, lines 80-93: the value_map of a dropdown_mapped.
NormalizedValueMap(vm) ==
    IF vm.k = "absent" THEN DictVal("empty")
    ELSE IF vm.k = "dict" THEN vm
    ELSE IF vm.k = "json" /\ vm.parsed.k = "dict" THEN vm.parsed
    ELSE DictVal("empty")

normalize_dropdown_options(q) ==
    LET q1 == IF q.type \in {"dropdown", "dropdown_mapped"}
              THEN [q EXCEPT !.options = NormalizedOptions(q.options)]
              ELSE q
    IN  IF q.type = "dropdown_mapped"
        THEN [q1 EXCEPT !.value_map = NormalizedValueMap(q.value_map)]
        ELSE q1

\* The places <<section, index>> of the questions of a list of sections.
Places(sections) ==
    UNION {{<<i, j>> : j \in 1..Len(sections[i].questions)} : i \in 1..Len(sections)}

QuestionAt(sections, pl) == sections[pl[1]].questions[pl[2]]

\* Reading order of places.
Before(a, b) == a[1] < b[1] \/ (a[1] = b[1] /\ a[2] < b[2])

\* The questions without id that ensure_question_ids meets before place pl.
MissingBefore(sections, pl) ==
    Cardinality({o \in Places(sections) :
                    Before(o, pl) /\ QuestionAt(sections, o).id = NoId})

\* How many ids ensure_question_ids generates for a document.
NumMissing(doc) ==
    Cardinality({o \in Places(doc.sections) : QuestionAt(doc.sections, o).id = NoId})

\* ensure_question_ids with q["id"] = uuid4() in place of setdefault: every
\* question gets a new id.
ensure_question_ids_Regenerating(doc, last) ==
    [title |-> doc.title,
     sections |->
        [i \in 1..Len(doc.sections) |->
           [title |-> doc.sections[i].title,
            questions |->
               [j \in 1..Len(doc.sections[i].questions) |->
                  [normalize_dropdown_options(doc.sections[i].questions[j])
                      EXCEPT !.id = last + Cardinality(
                          {o \in Places(doc.sections) : Before(o, <<i, j>>)}) + 1]]]]]

\* ensure_question_ids: every question normalized, and given the next uuid
\* (after `last`, the latest uuid given out) when it has no id.
ensure_question_ids(doc, last) ==
    [title |-> doc.title,
     sections |->
        [i \in 1..Len(doc.sections) |->
           [title |-> doc.sections[i].title,
            questions |->
               [j \in 1..Len(doc.sections[i].questions) |->
                  LET q == normalize_dropdown_options(doc.sections[i].questions[j])
                  IN  IF q.id = NoId
                      THEN [q EXCEPT !.id =
                               last + MissingBefore(doc.sections, <<i, j>>) + 1]
                      ELSE q]]]]

\* A question dict with these keys (lines 145-155, 161-170).
Question(id, text, type, required, options, value_map) ==
    [id |-> id, text |-> text, type |-> type, required |-> required,
     options |-> options, value_map |-> value_map, auto |-> Absent]

\* bool(x) of a dict value: a missing or empty dict is false.
Truthy(v) == v.k # "absent" /\ v # DictVal("empty")

\* Lines 145-155 and 161-170: the question made from legacy metadata m.
LegacyQuestion(text, m) ==
    Question(NoId, text,
             IF m.type = "absent" THEN "short_text" ELSE m.type,
             m.required # "false",
             IF m.options.k = "list" THEN m.options ELSE Absent,
             LET vm == IF Truthy(m.value_map) THEN m.value_map ELSE m.map
             IN  IF vm.k = "dict" THEN vm ELSE Absent)

\* The metadata of {q_text: meta} when meta is not a dict (line 144).
EmptyMeta ==
    [type |-> "absent", required |-> "absent", options |-> Absent,
     value_map |-> Absent, map |-> Absent]

\* Lines 140-171: the questions made from the items of one legacy section.
RECURSIVE LegacyQuestions(_)
LegacyQuestions(items) ==
    IF items = <<>> THEN <<>>
    ELSE LET item == Head(items)
             rest == LegacyQuestions(Tail(items))
         IN  IF item.k = "single"
             THEN <<LegacyQuestion(item.text,
                       IF item.metaIsDict THEN item.meta ELSE EmptyMeta)>> \o rest
             ELSE IF item.k = "question"
             THEN <<LegacyQuestion(item.text, item.meta)>> \o rest
             ELSE rest

\* Lines 136-173: the sections made from the inner value of a legacy payload.
LegacySections(inner) ==
    IF inner.k # "dict" THEN <<>>
    ELSE [i \in 1..Len(inner.sections) |->
            [title |-> inner.sections[i].title,
             questions |-> IF inner.sections[i].items.k = "list"
                           THEN LegacyQuestions(inner.sections[i].items.l)
                           ELSE <<>>]]

\* ensure_question_ids, lines 101-104, for a payload whose sections are not
\* a list of objects: the strings that `for sec in sections` hands to dict().
\* A string yields its characters, a dict its keys, a list its elements.
SectionItems(v) ==
    IF v.k = "str" THEN [i \in 1..Len(v.s) |-> <<v.s[i]>>]
    ELSE IF v.k = "list" THEN v.l
    ELSE IF v = DictVal("m1") THEN <<<<"a">>>>
    ELSE <<>>

\* Lines 101-104: iterating None or a number raises TypeError, and dict() of
\* a non-empty string raises ValueError.
Raises(raw) ==
    /\ raw.shape = "malformed"
    /\ \/ raw.value.k \in {"null", "num"}
       \/ \E i \in 1..Len(SectionItems(raw.value)) : SectionItems(raw.value)[i] # <<>>

\* to_canonical_question_set with an unknown shape wrapped in no section.
to_canonical_question_set_NoSection(raw, fallback_name, last) ==
    IF raw.shape = "canonical"
    THEN ensure_question_ids([title |-> raw.title, sections |-> raw.sections], last)
    ELSE IF raw.shape = "malformed"
    THEN ensure_question_ids([title |-> raw.title, sections |-> <<>>], last)
    ELSE IF raw.shape = "legacy"
    THEN ensure_question_ids(
            [title |-> raw.title, sections |-> LegacySections(raw.inner)], last)
    ELSE ensure_question_ids([title |-> fallback_name, sections |-> <<>>], last)

\* to_canonical_question_set, when it returns
to_canonical_question_set(raw, fallback_name, last) ==
    IF raw.shape = "canonical"
    THEN ensure_question_ids([title |-> raw.title, sections |-> raw.sections], last)
    ELSE IF raw.shape = "malformed"
    THEN ensure_question_ids([title |-> raw.title, sections |-> <<>>], last)
    ELSE IF raw.shape = "legacy"
    THEN ensure_question_ids(
            [title |-> raw.title, sections |-> LegacySections(raw.inner)], last)
    ELSE ensure_question_ids(
            [title |-> fallback_name,
             sections |-> <<[title |-> "Section", questions |-> <<>>]>>], last)

\* A canonical document read back as a payload.
AsPayload(doc) == [shape |-> "canonical", title |-> doc.title, sections |-> doc.sections]

-----------------------------------------------------------------------------
(* The payloads given to the canonicalizer. *)

StringsUpTo(n) == UNION {[1..k -> Chars] : k \in 0..n}

OptionInputs ==
    {Absent}
       \cup {StrVal(x) : x \in StringsUpTo(MaxStrLen)}
       \cup {ListVal(l) :
               l \in UNION {[1..k -> StringsUpTo(MaxStrLen)] : k \in 0..MaxListLen}}

ValueMapInputs ==
    {Absent, DictVal("m1"), DictVal("empty"), JsonText(DictVal("m1")),
     JsonText(ListVal(<<>>)), JsonText(Absent), OtherVal}

\* Questions whose options take every input form.
DropdownInputs ==
    {Question(id, <<"a">>, "dropdown", TRUE, o, Absent) :
        id \in {NoId, -1}, o \in OptionInputs}

\* Questions whose value_map takes every input form.
MappedInputs ==
    {Question(-1, <<"a">>, "dropdown_mapped", TRUE, ListVal(<<<<"a">>, <<"a", " ">>>>), vm) :
        vm \in ValueMapInputs}

\* Questions of a type without options to normalize.
TextInputs ==
    {Question(id, <<"a">>, "short_text", FALSE, o, Absent) :
        id \in {NoId, -1},
        o \in {Absent, StrVal(<<"a", "\n", "a">>), ListVal(<<<<"a">>, <<"a">>>>)}}

\* Canonical payloads: one section with one question, and two sections with
\* three questions, some with an id and some without.
CanonicalInputs ==
    {[shape |-> "canonical", title |-> "T",
      sections |-> <<[title |-> "S1", questions |-> <<q>>]>>] :
        q \in DropdownInputs \cup MappedInputs \cup TextInputs}
    \cup
    {[shape |-> "canonical", title |-> "T",
      sections |-> <<[title |-> "S1",
                      questions |-> <<Question(id, <<" ">>, "short_text", TRUE, Absent, Absent), q>>],
                     [title |-> "S2",
                      questions |-> <<Question(NoId, <<"a", "a">>, "date", TRUE, Absent, Absent)>>]>>] :
        id \in {NoId, -2}, q \in MappedInputs \cup TextInputs}
    \cup
    {[shape |-> "canonical", title |-> "T", sections |-> <<>>]}

LegacyMetas ==
    [type : {"absent", "dropdown"},
     required : {"absent", "false"},
     options : {Absent, StrVal(<<"a">>), ListVal(<<<<"a">>, <<"a", " ">>>>),
                ListVal(<<<<"a">>, <<"a">>>>)},
     value_map : {Absent, DictVal("m1")},
     map : {Absent, DictVal("m2")}]

LegacyItems ==
    {[k |-> "single", text |-> <<"a">>, metaIsDict |-> TRUE, meta |-> m] : m \in LegacyMetas}
    \cup {[k |-> "question", text |-> <<"a">>, meta |-> m] : m \in LegacyMetas}
    \cup {[k |-> "single", text |-> <<"a">>, metaIsDict |-> FALSE, meta |-> EmptyMeta],
          [k |-> "junk"]}

\* Legacy payloads {Title: {section: [items]}}, and the malformed ones.
LegacyInputs ==
    {[shape |-> "legacy", title |-> "T",
      inner |-> [k |-> "dict",
                 sections |-> <<[title |-> "S1", items |-> ListVal(<<it, [k |-> "junk"]>>)]>>]] :
        it \in LegacyItems}
    \cup
    {[shape |-> "legacy", title |-> "T",
      inner |-> [k |-> "dict", sections |-> <<[title |-> "S1", items |-> OtherVal]>>]],
     [shape |-> "legacy", title |-> "T", inner |-> OtherVal]}

\* Payloads of no recognized shape.
OtherInputs == {[shape |-> "other"]}

\* Dicts with title and sections whose sections, here value, are not a list
\* of objects: null, a number, a string, an empty string, a list of strings,
\* a dict, an empty dict.
MalformedInputs ==
    {[shape |-> "malformed", title |-> "T", value |-> v] :
        v \in {[k |-> "null"], [k |-> "num", n |-> 5], StrVal(<<"a", "a">>), StrVal(<<>>),
                ListVal(<<<<"a">>>>), DictVal("m1"), DictVal("empty")}}

CanonInputs == CanonicalInputs \cup LegacyInputs \cup OtherInputs \cup MalformedInputs

EmptyDoc == [title |-> "", sections |-> <<>>]

\* No canonicalization under way.
CanonIdle ==
    canon = [phase |-> "idle", raw |-> [shape |-> "other"], fallback |-> "",
             once |-> EmptyDoc, twice |-> EmptyDoc]

CanonInit ==
    \E raw \in CanonInputs, fallback \in Names :
        canon = [phase |-> "input", raw |-> raw, fallback |-> fallback,
                 once |-> EmptyDoc, twice |-> EmptyDoc]

\* canonicalize(x): the document, or the exception of ensure_question_ids.
Canonicalize ==
    /\ canon.phase = "input"
    /\ IF Raises(canon.raw)
       THEN /\ canon' = [canon EXCEPT !.phase = "raised"]
            /\ UNCHANGED uuid_next
       ELSE LET doc == to_canonical_question_set(canon.raw, canon.fallback, uuid_next)
            IN  /\ canon' = [canon EXCEPT !.phase = "once", !.once = doc]
                /\ uuid_next' = uuid_next + IF canon.raw.shape = "canonical"
                                            THEN NumMissing(canon.raw)
                                            ELSE Cardinality(Places(doc.sections))
    /\ CanonFrame

\* canonicalize(canonicalize(x))
Recanonicalize ==
    /\ canon.phase = "once"
    /\ canon' = [canon EXCEPT
                    !.phase = "twice",
                    !.twice = to_canonical_question_set(
                                 AsPayload(canon.once), canon.fallback, uuid_next)]
    /\ uuid_next' = uuid_next + NumMissing(canon.once)
    /\ CanonFrame

CanonNext == Canonicalize \/ Recanonicalize

-----------------------------------------------------------------------------
(***************************************************************************)
(* Answer ingestion: POST /api/projects/{id}/records (main.py 417-533)     *)
(* and the additions to a project's custom block (crud.py 452-472), for    *)
(* one project that is assigned the seeded default question set.           *)
(* A string is the sequence of its characters; None in the place of a      *)
(* string is the sequence NoText. A question id or an answer key that is   *)
(* a UUID is a number: positive when uuid4 made it, negative when a client *)
(* chose it. Question texts and options of the seeded set are abbreviated. *)
(***************************************************************************)

\* None where a string may stand.
NoText == <<"None">>

\* JSON null
Null == [k |-> "null"]

\* A JSON number
NumVal(n) == [k |-> "num", n |-> n]

\* A JSON object posted as an answer: its keys text, type and value, each
\* Absent when the object does not have it.
MetaVal(text, type, value) == [k |-> "meta", text |-> text, type |-> type, value |-> value]

\* An answer key that _is_uuid accepts.
IdKey(n) == [uuid |-> TRUE, id |-> n, s |-> <<>>]

\* An answer key that _is_uuid rejects: a human readable label.
LabelKey(s) == [uuid |-> FALSE, id |-> NoId, s |-> s]

\* _is_uuid
is_uuid(key) == key.uuid

\* str.casefold() of a character.
Casefold(c) == IF c = "A" THEN "a" ELSE c

\* str.split(): the runs of characters between white space.
RECURSIVE SplitWords(_)
SplitWords(s) ==
    LET t == Strip(s)
        gaps == {i \in 1..Len(t) : IsSpace(t[i])}
    IN  IF t = <<>> THEN <<>>
        ELSE IF gaps = {} THEN <<t>>
        ELSE <<SubSeq(t, 1, SetMin(gaps) - 1)>>
                \o SplitWords(SubSeq(t, SetMin(gaps) + 1, Len(t)))

\* " ".join(words)
RECURSIVE JoinWords(_)
JoinWords(words) ==
    IF words = <<>> THEN <<>>
    ELSE IF Len(words) = 1 THEN Head(words)
    ELSE Head(words) \o <<" ">> \o JoinWords(Tail(words))

\* _norm_label: " ".join(str(value).strip().split()).casefold()
norm_label(value) ==
    LET joined == JoinWords(SplitWords(Strip(value)))
    IN  [i \in 1..Len(joined) |-> Casefold(joined[i])]

\* A question of the seeded set before it has an id.
Seeded(text, type, required) == Question(NoId, text, type, required, Absent, Absent)

\* The auto binding of a question.
Auto(source) == [k |-> "auto", source |-> source]

SeededOptions == ListVal(<< <<"o", "1">>, <<"o", "2">> >>)

\* The data of ensure_default_question_set, lines 81-167.
DefaultRaw ==
    [shape |-> "canonical", title |-> DEFAULT_QUESTION_SET_NAME,
     sections |-> <<
       [title |-> "Monthly Update",
        questions |-> <<
          [Seeded(<<"f", "c">>, "integer", FALSE) EXCEPT !.auto = Auto("project_focalpoint_code")],
          [Seeded(<<"p", "n">>, "short_text", FALSE) EXCEPT !.auto = Auto("project_name")],
          Seeded(<<"p", "m">>, "short_text", TRUE),
          Seeded(<<"p", "s">>, "short_text", TRUE),
          [Seeded(<<"f", "p">>, "dropdown", TRUE) EXCEPT !.options = SeededOptions],
          [Seeded(<<"p", "t">>, "dropdown", TRUE) EXCEPT !.options = SeededOptions],
          [Seeded(<<"r", "g">>, "dropdown", TRUE) EXCEPT !.options = SeededOptions],
          Seeded(<<"p", "l">>, "long_text", TRUE),
          Seeded(<<"f", "n">>, "long_text", TRUE),
          Seeded(<<"r", "r">>, "yes_no", TRUE),
          Seeded(<<"k", "r">>, "long_text", FALSE),
          Seeded(<<"d", "l">>, "date", FALSE),
          Seeded(<<"i", "p">>, "yes_no", TRUE),
          Seeded(<<"i", "l">>, "yes_no", TRUE),
          Seeded(<<"s", "i">>, "long_text", FALSE),
          Seeded(<<"o", "c">>, "long_text", FALSE),
          [Seeded(<<"s", "t">>, "dropdown_mapped", TRUE)
              EXCEPT !.options = SeededOptions, !.value_map = DictVal("m1")],
          [Seeded(<<"s", "b">>, "dropdown_mapped", TRUE)
              EXCEPT !.options = SeededOptions, !.value_map = DictVal("m1")],
          [Seeded(<<"s", "s">>, "dropdown_mapped", TRUE)
              EXCEPT !.options = SeededOptions, !.value_map = DictVal("m1")]
        >>]
     >>]

\* What the seed stores, line 169: the first uuids go to its questions.
DefaultData == to_canonical_question_set(DefaultRaw, DEFAULT_QUESTION_SET_NAME, 0)

\* The uuids the seed used.
SeedUuids == NumMissing(DefaultRaw)

\* The payload an administrator posts to create a version: one section with
\* one question that carries a client id.
DocA ==
    [shape |-> "canonical", title |-> "A",
     sections |-> <<[title |-> "S1",
                     questions |-> <<Question(-3, <<"b">>, "short_text", FALSE,
                                              Absent, Absent)>>]>>]

\* The data column of a stored question set: version 1 is the seeded set,
\* the others are made by create_question_set from the posted payload.
StoredData(qs) ==
    IF qs.id = 1 THEN DefaultData ELSE to_canonical_question_set(DocA, qs.name, 0)

\* create_project, line 348: the custom block of a new project.
NewCustomBlock == [title |-> "Custom", sections |-> <<>>]

\* canonical_project_custom_questions: a stored block has title and sections.
canonical_project_custom_questions(raw, last) == ensure_question_ids(raw, last)

\* The assignments of project p by position.
RECURSIVE LinksInOrder(_)
LinksInOrder(links) ==
    IF links = {} THEN <<>>
    ELSE LET first == CHOOSE r \in links : \A o \in links : r.position <= o.position
         IN  <<first>> \o LinksInOrder(links \ {first})

\* Sections of one set of the merged form, lines 403-411.
SetSections(sdata) ==
    [i \in 1..Len(sdata.sections) |->
        [title |-> <<sdata.title, sdata.sections[i].title>>,
         questions |-> sdata.sections[i].questions]]

RECURSIVE SetsSections(_)
SetsSections(links) ==
    IF links = <<>> THEN <<>>
    ELSE LET found == QsRows(Head(links).question_set_id)
         IN  (IF found = {} THEN <<>>
              ELSE SetSections(StoredData(CHOOSE qs \in found : TRUE)))
             \o SetsSections(Tail(links))

\* merged_project_form for project p whose custom block reads as p_custom.
merged_project_form(p, p_custom) ==
    LET custom == canonical_project_custom_questions(p_custom, 0)
    IN  SetsSections(LinksInOrder(LinksOf(project_question_sets, p)))
           \o [i \in 1..Len(custom.sections) |->
                 [title |-> <<"Custom", custom.sections[i].title>>,
                  questions |-> custom.sections[i].questions]]

\* The questions of a form in reading order.
RECURSIVE FormQuestions(_)
FormQuestions(sections) ==
    IF sections = <<>> THEN <<>>
    ELSE Head(sections).questions \o FormQuestions(Tail(sections))

\* q.get(k) of a key that may be absent: None when it is.
Get(v) == IF v = Absent THEN Null ELSE v

\* The whole question copied into the lookup, auto binding included.
LookupInfo_WithAuto(q) ==
    [text |-> q.text, type |-> q.type, required |-> q.required,
     options |-> Get(q.options), value_map |-> Get(q.value_map),
     auto |-> Get(q.auto)]

\* question_lookup_from_form: the five keys kept of a question.
LookupInfo(q) ==
    [text |-> q.text, type |-> q.type, required |-> q.required,
     options |-> Get(q.options), value_map |-> Get(q.value_map)]

\* question_lookup_from_form: id -> the last question of the form with it.
question_lookup_from_form(sections) ==
    LET qs == FormQuestions(sections)
    IN  [id \in {qs[i].id : i \in 1..Len(qs)} |->
            LookupInfo(qs[SetMax({i \in 1..Len(qs) : qs[i].id = id})])]

\* The ids of a lookup in the order of dict.items(): by first insertion.
LookupOrder(sections) ==
    LET qs == FormQuestions(sections)
        first(i) == \A j \in 1..(i - 1) : qs[j].id # qs[i].id
        firsts == {i \in 1..Len(qs) : first(i)}
        RECURSIVE walk(_)
        walk(i) == IF i > Len(qs) THEN <<>>
                   ELSE (IF i \in firsts THEN <<qs[i].id>> ELSE <<>>) \o walk(i + 1)
    IN  walk(1)

\* bool(text) of a question text or a label.
HasText(text) == text # NoText /\ text # <<>>

\* The empty dict.
NoEntries == [key \in {} |-> Null]

\* d[key] = value
Put(d, key, value) ==
    [x \in DOMAIN d \cup {key} |-> IF x = key THEN value ELSE d[x]]

\* d.pop(key)
Drop(d, key) == [x \in DOMAIN d \ {key} |-> d[x]]

\* Lines 460-463, 489-491, 510-512: label_to_qid after the lookup of a form
\* is written over `base`.
LabelMap(sections, base) ==
    LET order == LookupOrder(sections)
        lk == question_lookup_from_form(sections)
        keyed == {i \in 1..Len(order) : HasText(lk[order[i]].text)}
        labels == {norm_label(lk[order[i]].text) : i \in keyed}
    IN  [l \in DOMAIN base \cup labels |->
            IF l \in labels
            THEN order[SetMax({i \in keyed : norm_label(lk[order[i]].text) = l})]
            ELSE base[l]]

\* qinfo.get("auto")
AutoOf(qinfo) == IF "auto" \in DOMAIN qinfo THEN qinfo.auto ELSE Absent

\* Lines 436-446: answers after the auto-fill from project proj.
AutoFill(answers, qlookup, proj) ==
    LET named == {id \in DOMAIN qlookup :
                     /\ AutoOf(qlookup[id]).k = "auto"
                     /\ AutoOf(qlookup[id]).source = "project_name"}
        coded == {id \in DOMAIN qlookup :
                     /\ AutoOf(qlookup[id]).k = "auto"
                     /\ AutoOf(qlookup[id]).source = "project_focalpoint_code"
                     /\ proj.focalpoint_code # Null}
    IN  [key \in DOMAIN answers \cup {IdKey(id) : id \in named \cup coded} |->
            IF key.uuid /\ key.id \in named THEN StrVal(proj.name)
            ELSE IF key.uuid /\ key.id \in coded THEN proj.focalpoint_code
            ELSE answers[key]]

\* A question dict as posted: required_given tells whether it has the key
\* required; type "" and id NoId are the missing keys type and id.
Posted(id, text, type, required_given, required) ==
    [id |-> id, text |-> text, type |-> type, required_given |-> required_given,
     required |-> required, options |-> Absent, value_map |-> Absent]

\* A JSON boolean.
BoolVal(b) == [k |-> "bool", b |-> b]

\* A JSON number written with a fraction part, in tenths: FloatVal(10) is 1.0.
FloatVal(tenths) == [k |-> "float", tenths |-> tenths]

\* meta.get(name, default) of a posted object.
Field(raw, name, default) == IF name \in DOMAIN raw THEN raw[name] ELSE default

\* str.lower() of the upper-case letters in use.
Lowered ==
    ("T" :> "t") @@ ("R" :> "r") @@ ("U" :> "u") @@ ("E" :> "e") @@ ("Y" :> "y")
    @@ ("S" :> "s") @@ ("N" :> "n") @@ ("O" :> "o") @@ ("F" :> "f")

\* str.lower()
lower(s) == [i \in 1..Len(s) |-> IF s[i] \in DOMAIN Lowered THEN Lowered[s[i]] ELSE s[i]]

Yes == StrVal(<<"y", "e", "s">>)

No == StrVal(<<"n", "o">>)

\* _normalize_yes_no, line 192
YesWords == {<<"t", "r", "u", "e">>, <<"t">>, <<"1">>, <<"y", "e", "s">>, <<"y">>}

\* _normalize_yes_no, line 194
NoWords == {<<"f", "a", "l", "s", "e">>, <<"f">>, <<"0">>, <<"n", "o">>, <<"n">>}

\* _normalize_yes_no without lower().
normalize_yes_no_CaseSensitive(v) ==
    IF v = BoolVal(TRUE) THEN Yes
    ELSE IF v = BoolVal(FALSE) THEN No
    ELSE IF v.k = "str" /\ Strip(v.s) \in YesWords THEN Yes
    ELSE IF v.k = "str" /\ Strip(v.s) \in NoWords THEN No
    ELSE IF v \in {NumVal(1), FloatVal(10)} THEN Yes
    ELSE IF v \in {NumVal(0), FloatVal(0)} THEN No
    ELSE v

\* _normalize_yes_no: `v in (0, 1)` compares with ==, and 1.0 == 1.
normalize_yes_no(v) ==
    IF v = BoolVal(TRUE) THEN Yes
    ELSE IF v = BoolVal(FALSE) THEN No
    ELSE IF v.k = "str" /\ lower(Strip(v.s)) \in YesWords THEN Yes
    ELSE IF v.k = "str" /\ lower(Strip(v.s)) \in NoWords THEN No
    ELSE IF v \in {NumVal(1), FloatVal(10)} THEN Yes
    ELSE IF v \in {NumVal(0), FloatVal(0)} THEN No
    ELSE v

\* \d
IsDigit(c) == c \in {"0", "1", "2", "3", "4", "5", "6", "7", "8", "9"}

\* re.fullmatch(r"\d{4}-\d{2}-\d{2}", s)
DateShape(s) ==
    /\ Len(s) = 10
    /\ \A i \in 1..10 : IF i \in {5, 8} THEN s[i] = "-" ELSE IsDigit(s[i])

\* utils.infer_question_from_value, line 279: ten characters, the fifth "-".
UtilsDateShape(s) == Len(s) = 10 /\ s[5] = "-"

\* _infer_question_from_value, lines 215-224: the value under a posted object.
InferredValue(raw) ==
    IF raw.k = "meta"
    THEN (IF Field(raw, "value", Absent) # Absent THEN raw.value
          ELSE IF Field(raw, "answer", Absent) # Absent THEN raw.answer
          ELSE raw)
    ELSE raw

\* Line 216: meta.get("type") or meta.get("qtype"); "" when neither is given.
GivenType(raw) ==
    IF raw.k = "meta"
    THEN (IF raw.type # "" THEN raw.type ELSE Field(raw, "qtype", ""))
    ELSE ""

\* The inference with the test for a number ahead of the test for a boolean.
InferredType_NumberFirst(raw) ==
    LET val == InferredValue(raw)
    IN  IF GivenType(raw) # "" THEN GivenType(raw)
        ELSE IF val.k \in {"bool", "num", "float"} THEN "numeric"
        ELSE IF val.k = "str" /\ DateShape(Strip(val.s)) THEN "date"
        ELSE IF val.k = "str" /\ Len(val.s) > 80 THEN "long_text"
        ELSE "short_text"

\* _infer_question_from_value, lines 216-235: the type of the question.
InferredType(raw) ==
    LET val == InferredValue(raw)
    IN  IF GivenType(raw) # "" THEN GivenType(raw)
        ELSE IF val.k = "bool" THEN "yes_no"
        ELSE IF val.k \in {"num", "float"} THEN "numeric"
        ELSE IF val.k = "str" /\ DateShape(Strip(val.s)) THEN "date"
        ELSE IF val.k = "str" /\ Len(val.s) > 80 THEN "long_text"
        ELSE "short_text"

\* _infer_question_from_value, lines 229 and 237-240: the value it returns.
NormalizedValue(raw) ==
    IF InferredType(raw) = "yes_no"
    THEN normalize_yes_no(InferredValue(raw))
    ELSE InferredValue(raw)

\* utils.infer_question_from_value, lines 262-281: the type of the question.
UtilsInferredType(raw) ==
    LET val == InferredValue(raw)
    IN  IF GivenType(raw) # "" THEN GivenType(raw)
        ELSE IF val.k = "bool" THEN "yes_no"
        ELSE IF val.k \in {"num", "float"} THEN "numeric"
        ELSE IF val.k = "str" /\ UtilsDateShape(Strip(val.s)) THEN "date"
        ELSE IF val.k = "str" /\ Len(val.s) > 80 THEN "long_text"
        ELSE "short_text"

\* utils.infer_question_from_value, lines 275 and 283-286: the value it
\* returns; utils.normalize_yes_no is main._normalize_yes_no line by line.
UtilsNormalizedValue(raw) ==
    IF UtilsInferredType(raw) = "yes_no"
    THEN normalize_yes_no(InferredValue(raw))
    ELSE InferredValue(raw)

\* _infer_question_from_value: the question for a label and a posted value,
\* with uuid as its new id.
infer_question_from_value(label, raw, uuid) ==
    [Posted(uuid, Strip(label), InferredType(raw), TRUE, FALSE) EXCEPT
        !.options = IF raw.k = "meta" /\ Field(raw, "options", Absent).k = "list"
                    THEN raw.options ELSE Absent,
        !.value_map = IF raw.k = "meta" /\ Field(raw, "value_map", Absent).k = "dict"
                      THEN raw.value_map ELSE Absent]

\* Lines 473-475: the object handed to _infer_question_from_value for a UUID
\* key, {"type": qtype, "value": raw_val.get("value", raw_val.get("answer"))}.
UuidMeta(raw_val) ==
    MetaVal(raw_val.text, raw_val.type,
            IF Field(raw_val, "value", Absent) # Absent THEN raw_val.value
            ELSE IF Field(raw_val, "answer", Absent) # Absent THEN raw_val.answer
            ELSE Null)

\* add_project_custom_question, lines 463-466: the defaults of a question.
AddDefaults(q, last) ==
    [q EXCEPT !.required = IF q.required_given THEN @ ELSE TRUE,
              !.type = IF @ = "" THEN "short_text" ELSE @,
              !.id = IF @ = NoId THEN last + 1 ELSE @]

\* The stored form of a posted question.
Stored(q) == Question(q.id, q.text, q.type, q.required, q.options, q.value_map)

\* add_project_custom_question, lines 453-470: the block it writes, from the
\* block p_custom the session has loaded; `last` is the latest uuid given out.
add_project_custom_question(p_custom, section_title, question, last) ==
    LET cq == canonical_project_custom_questions(p_custom, 0)
        q == Stored(AddDefaults(question, last))
        hits == {i \in 1..Len(cq.sections) : cq.sections[i].title = section_title}
    IN  IF hits = {}
        THEN [cq EXCEPT !.sections =
                 Append(@, [title |-> section_title, questions |-> <<q>>])]
        ELSE [cq EXCEPT !.sections[SetMin(hits)].questions = Append(@, q)]

\* update_project_custom_question, line 497: the question is in the block.
CustomQuestionFound(p_custom, question_id) ==
    question_id \in {QuestionAt(canonical_project_custom_questions(p_custom, 0).sections, pl).id :
                        pl \in Places(canonical_project_custom_questions(p_custom, 0).sections)}

\* Lines 500-504: the question leaves the section it was found in when the
\* title of that section is not the new one.
RemovedFromOld(sections, question_id, new_section_title) ==
    LET found == SetMin({pl[1] : pl \in {x \in Places(sections) :
                                            QuestionAt(sections, x).id = question_id}})
        other(q) == q.id # question_id
    IN  IF sections[found].title # new_section_title
        THEN [sections EXCEPT ![found].questions = SelectSeq(@, other)]
        ELSE sections

\* Lines 507-510: the first section with the new title, appended when absent.
TargetOf(sections, new_section_title) ==
    LET hits == {i \in 1..Len(sections) : sections[i].title = new_section_title}
    IN  IF hits = {} THEN Len(sections) + 1 ELSE SetMin(hits)

WithTarget(sections, new_section_title) ==
    IF TargetOf(sections, new_section_title) > Len(sections)
    THEN Append(sections, [title |-> new_section_title, questions |-> <<>>])
    ELSE sections

\* Lines 518-525: qnew replaces the first question with its id, else is appended.
ReplacedOrAppended(tgtqs, qnew) ==
    LET same == {i \in 1..Len(tgtqs) : tgtqs[i].id = qnew.id}
    IN  IF same = {} THEN Append(tgtqs, qnew) ELSE [tgtqs EXCEPT ![SetMin(same)] = qnew]

\* Lines 528 and 550: the sections that have a question.
DropEmptySections(sections) ==
    LET nonempty(sec) == sec.questions # <<>>
    IN  SelectSeq(sections, nonempty)

\* update_project_custom_question, lines 483-529: the block it writes when
\* the question is found; question carries question_id as its id.
update_project_custom_question(p_custom, new_section_title, question) ==
    LET cq == canonical_project_custom_questions(p_custom, 0)
        moved == WithTarget(RemovedFromOld(cq.sections, question.id, new_section_title),
                            new_section_title)
    IN  [cq EXCEPT !.sections =
            DropEmptySections(
               [moved EXCEPT ![TargetOf(moved, new_section_title)].questions =
                   ReplacedOrAppended(@, Stored(AddDefaults(question, 0)))])]

\* delete_project_custom_question, lines 539-551: the block it writes when
\* the question is found.
delete_project_custom_question(p_custom, question_id) ==
    LET cq == canonical_project_custom_questions(p_custom, 0)
        other(q) == q.id # question_id
    IN  [cq EXCEPT !.sections =
            DropEmptySections([i \in 1..Len(cq.sections) |->
                [cq.sections[i] EXCEPT !.questions = SelectSeq(@, other)]])]

\* The most questions of a block, and uuids given out, after which a new
\* request is still served.
MaxQuestions == 3

\* Line 530: how many missing questions the error names.
MissingShown == 10

\* Lines 524-527: the texts of the required questions without an answer.
MissingTexts(answers, sections) ==
    LET order == LookupOrder(sections)
        lk == question_lookup_from_form(sections)
        lacks(id) == /\ lk[id].required
                     /\ \/ IdKey(id) \notin DOMAIN answers
                        \/ answers[IdKey(id)] \in {StrVal(<<>>), Null}
        RECURSIVE walk(_)
        walk(i) == IF i > Len(order) THEN <<>>
                   ELSE (IF lacks(order[i]) THEN <<lk[order[i]].text>> ELSE <<>>)
                           \o walk(i + 1)
    IN  walk(1)

\* missing without the slice
Shown_All(missing) == missing

\* missing[:10]
Shown(missing) ==
    SubSeq(missing, 1, IF Len(missing) < MissingShown THEN Len(missing) ELSE MissingShown)

-----------------------------------------------------------------------------
(* The requests of the ingestion model. *)

\* The sessions, each serving one request.
Sessions == {"s1", "s2"}

\* The project whose records are posted.
TheProject == 1

\* The required questions of the seeded set.
RequiredIds ==
    {QuestionAt(DefaultData.sections, pl).id :
        pl \in {o \in Places(DefaultData.sections) :
                   QuestionAt(DefaultData.sections, o).required}}

\* A payload entry.
Entry(key, value) == [key |-> key, value |-> value]

\* Entries for the ids of S in increasing order, each answered "a".
RECURSIVE Answered(_)
Answered(S) ==
    IF S = {} THEN <<>>
    ELSE <<Entry(IdKey(SetMin(S)), StrVal(<<"a">>))>> \o Answered(S \ {SetMin(S)})

\* Answers to the known questions: every required one and the two bound to
\* the project answered.
Complete ==
    <<Entry(IdKey(1), NumVal(999)), Entry(IdKey(2), StrVal(<<"a">>))>>
       \o Answered(RequiredIds)

\* One required answer "" or null, the others given.
Incomplete ==
    {<<Entry(IdKey(3), blank)>> \o Answered(RequiredIds \ {3}) :
        blank \in {StrVal(<<>>), Null}}

\* The unknown keys: labels equal after _norm_label, a blank label, a label
\* followed by an unknown UUID without metadata, an unknown UUID with metadata.
UnknownParts ==
    {<<>>,
     <<Entry(LabelKey(<<"a">>), StrVal(<<"a">>))>>,
     <<Entry(LabelKey(<<"A", " ">>), NumVal(1))>>,
     <<Entry(LabelKey(<<" ">>), StrVal(<<"a">>))>>,
     <<Entry(LabelKey(<<"a">>), StrVal(<<"a">>)), Entry(IdKey(-1), StrVal(<<"a">>))>>,
     <<Entry(IdKey(-1), MetaVal(<<"a">>, "", StrVal(<<"a">>)))>>}

\* An unknown UUID alone: with a blank text as metadata, and with an object
\* that has no text.
UuidOnly ==
    {<<Entry(IdKey(-1), MetaVal(<<" ">>, "", StrVal(<<"a">>)))>>,
     <<Entry(IdKey(-1), MetaVal(NoText, "", StrVal(<<"a">>)))>>}

\* The posted answers: complete ones with each choice of unknown keys, one
\* missing a required answer, and no known answer with and without a label.
IngestPayloads ==
    {Complete \o u : u \in UnknownParts}
       \cup Incomplete
       \cup {<<>>, <<Entry(LabelKey(<<"a">>), StrVal(<<"a">>))>>}
       \cup UuidOnly


\* The questions posted to the admin route with their section titles: one
\* with a text for "Auto-created", one with neither text nor required, and a
\* dropdown with an id of the caller and two one-letter options.
AdminPayloads ==
    {[section_title |-> "Auto-created",
      question |-> Posted(NoId, <<"a">>, "short_text", TRUE, FALSE)],
     [section_title |-> "Custom",
      question |-> Posted(NoId, NoText, "", FALSE, FALSE)],
     [section_title |-> "Custom",
      question |-> [Posted(-1, <<"b">>, "dropdown", TRUE, TRUE)
                       EXCEPT !.options = ListVal(<<<<"a">>, <<"a">>>>)]]}

\* The updates posted to the admin route: the question_id of the path is
\* kept as the id of the question, which line 513 sets.
UpdatePayloads ==
    {[section_title |-> title,
      question |-> Posted(qid, <<"b">>, "", FALSE, FALSE)] :
        title \in {"Auto-created", "Custom"}, qid \in {-1, SeedUuids + 1}}

\* The question ids of the delete route.
DeleteIds == {-1, SeedUuids + 1}

\* dict(payload.answers)
AnswersOf(payload) ==
    [key \in {payload[i].key : i \in 1..Len(payload)} |->
        payload[CHOOSE i \in 1..Len(payload) : payload[i].key = key].value]

\* The keys of a payload in order.
KeysOf(payload) == [i \in 1..Len(payload) |-> payload[i].key]

NoDetail == [kind |-> "", texts |-> <<>>, key |-> IdKey(NoId)]

\* A session that has not received its request. Besides the locals of the
\* handler it records the block found at the start, the ids of the questions
\* it added, and the sessions already answered when its request arrived.
FreshSession ==
    [pc |-> "start", op |-> "none", payload |-> <<>>,
     p_custom |-> NewCustomBlock, start_block |-> NewCustomBlock,
     label_to_qid |-> [l \in {} |-> NoId], answers |-> NoEntries,
     unknown |-> <<>>, pending |-> Entry(IdKey(NoId), Null),
     section_title |-> "", question |-> Posted(NoId, NoText, "", FALSE, FALSE),
     created |-> <<>>, after |-> {}, status |-> 0, detail |-> NoDetail,
     form |-> <<>>]

\* The registry after create_project for TheProject.
IngestRegInit ==
    /\ projects = {TheProject}
    /\ question_sets = {[id |-> 1, name |-> DEFAULT_QUESTION_SET_NAME,
                         created_at |-> 1, data |-> "docA"]}
    /\ project_question_sets =
          {[project_id |-> TheProject, question_set_id |-> 1, position |-> 0]}
    /\ next_qs_id = 2
    /\ writer = [w \in Writers |-> IdleWriter]
    /\ response = Response("create_project", 200)

\* No ingestion under way.
IngestIdle ==
    /\ project = [name |-> <<"p">>, focalpoint_code |-> Null]
    /\ custom_questions = NewCustomBlock
    /\ records = <<>>
    /\ ingest = [s \in Sessions |-> FreshSession]

\* The project with or without a focalpoint code, no custom question, no record.
IngestInit ==
    /\ \E code \in {Null, NumVal(7)} : project = [name |-> <<"p">>, focalpoint_code |-> code]
    /\ custom_questions = NewCustomBlock
    /\ records = <<>>
    /\ ingest = [s \in Sessions |-> FreshSession]

\* The form and lookup a session holds, from the block it has loaded.
FormOf(s) == merged_project_form(TheProject, ingest[s].p_custom)

-----------------------------------------------------------------------------
(* create_record of main.py, one action per stretch between two commits. *)

\* Lines 431-463: the form is read, the answers auto-filled, the label map
\* and the unknown keys computed.
IngestLoad(s, payload) ==
    /\ ingest[s].pc = "start"
    /\ LET form == merged_project_form(TheProject, custom_questions)
           qlookup == question_lookup_from_form(form)
           answers == AutoFill(AnswersOf(payload), qlookup, project)
           unknown(key) == ~(key.uuid /\ key.id \in DOMAIN qlookup)
       IN  ingest' = [ingest EXCEPT ![s] =
              [@ EXCEPT !.pc = "keys", !.op = "ingest", !.payload = payload,
                        !.after = {t \in Sessions : ingest[t].pc = "done"},
                        !.p_custom = custom_questions,
                        !.start_block = custom_questions,
                        !.label_to_qid = LabelMap(form, @),
                        !.answers = answers,
                        !.unknown = SelectSeq(KeysOf(payload), unknown)]]
    /\ UNCHANGED <<project, custom_questions, records, uuid_next>>
    /\ IngestFrame

\* Lines 484 and 505, up to the commit of add_project_custom_question: the
\* question is appended to the block the session has loaded.
IngestAdd(s, qdef, key, value) ==
    /\ custom_questions' =
          add_project_custom_question(ingest[s].p_custom, "Auto-created", qdef, uuid_next)
    /\ ingest' = [ingest EXCEPT ![s] =
          [@ EXCEPT !.pc = "refresh",
                    !.answers = Drop(@, Head(ingest[s].unknown)),
                    !.unknown = Tail(@),
                    !.pending = Entry(key, value),
                    !.created = Append(@, qdef.id)]]

\* Lines 478-481 and 498-501: the answer goes to the question found by label.
IngestReuse(s, existing_qid, value) ==
    /\ ingest' = [ingest EXCEPT ![s] =
          [@ EXCEPT !.answers = Put(Drop(@, Head(ingest[s].unknown)),
                                    IdKey(existing_qid), value),
                    !.unknown = Tail(@)]]
    /\ UNCHANGED custom_questions

\* Lines 517-522 without the HTTPException: the request crashes.
IngestUnknownId_Crash(s, k) ==
    /\ ingest' = [ingest EXCEPT ![s] =
          [@ EXCEPT !.pc = "done", !.status = 500,
                    !.detail = [kind |-> "TypeError", texts |-> <<>>, key |-> k]]]
    /\ UNCHANGED custom_questions

\* Lines 517-522: Unknown question id.
IngestUnknownId(s, k) ==
    /\ ingest' = [ingest EXCEPT ![s] =
          [@ EXCEPT !.pc = "done", !.status = 400,
                    !.detail = [kind |-> "unknown_id", texts |-> <<>>, key |-> k]]]
    /\ UNCHANGED custom_questions

\* Lines 467-522: one turn of the loop over the unknown keys.
IngestKey(s) ==
    /\ ingest[s].pc = "keys"
    /\ ingest[s].unknown # <<>>
    /\ LET k == Head(ingest[s].unknown)
           raw_val == ingest[s].answers[k]
           map == ingest[s].label_to_qid
       IN  IF is_uuid(k) /\ raw_val.k = "meta" /\ HasText(raw_val.text)
           THEN LET label == raw_val.text
                    meta == UuidMeta(raw_val)
                    qdef == [infer_question_from_value(label, meta, uuid_next + 1)
                                EXCEPT !.id = k.id]
                    norm_val == NormalizedValue(meta)
                IN  /\ uuid_next' = uuid_next + 1
                    /\ IF norm_label(label) \in DOMAIN map
                       THEN IngestReuse(s, map[norm_label(label)], norm_val)
                       ELSE IngestAdd(s, qdef, k, norm_val)
           ELSE IF ~is_uuid(k)
           THEN IF norm_label(k.s) \in DOMAIN map
                THEN /\ IngestReuse(s, map[norm_label(k.s)], raw_val)
                     /\ UNCHANGED uuid_next
                ELSE LET qdef == infer_question_from_value(k.s, raw_val, uuid_next + 1)
                     IN  /\ uuid_next' = uuid_next + 1
                         /\ IngestAdd(s, qdef, IdKey(qdef.id), NormalizedValue(raw_val))
           ELSE /\ IngestUnknownId(s, k)
                /\ UNCHANGED uuid_next
    /\ UNCHANGED <<project, records>>
    /\ IngestFrame

\* Lines 487-493 and 508-514: the form is read again after the commit, the
\* label map extended and the answer stored under the new question.
IngestRefresh(s) ==
    /\ ingest[s].pc = "refresh"
    /\ ingest' = [ingest EXCEPT ![s] =
          [@ EXCEPT !.pc = "keys",
                    !.p_custom = custom_questions,
                    !.label_to_qid =
                        LabelMap(merged_project_form(TheProject, custom_questions), @),
                    !.answers = Put(@, ingest[s].pending.key, ingest[s].pending.value)]]
    /\ UNCHANGED <<project, custom_questions, records, uuid_next>>
    /\ IngestFrame

\* Lines 524-533: the required answers are checked and the record stored.
IngestFinish(s) ==
    /\ ingest[s].pc = "keys"
    /\ ingest[s].unknown = <<>>
    /\ LET missing == MissingTexts(ingest[s].answers, FormOf(s))
           shown == Shown(missing)
       IN  IF missing = <<>>
           THEN /\ records' = Append(records, [answers |-> ingest[s].answers])
                /\ ingest' = [ingest EXCEPT ![s] = [@ EXCEPT !.pc = "done", !.status = 200]]
           ELSE /\ UNCHANGED records
                /\ ingest' = [ingest EXCEPT ![s] =
                      IF \E i \in 1..Len(shown) : shown[i] = NoText
                      THEN [@ EXCEPT !.pc = "done", !.status = 500,
                                     !.detail = [kind |-> "TypeError", texts |-> <<>>,
                                                 key |-> IdKey(NoId)]]
                      ELSE [@ EXCEPT !.pc = "done", !.status = 400,
                                     !.detail = [kind |-> "missing", texts |-> shown,
                                                 key |-> IdKey(NoId)]]]
    /\ UNCHANGED <<project, custom_questions, uuid_next>>
    /\ IngestFrame

\* admin_add_custom_question, crud.py 453-454: the project is loaded.
AdminAddLoad(s, payload) ==
    /\ ingest[s].pc = "start"
    /\ ingest' = [ingest EXCEPT ![s] =
          [@ EXCEPT !.pc = "add", !.op = "add",
                    !.after = {t \in Sessions : ingest[t].pc = "done"},
                    !.p_custom = custom_questions,
                    !.start_block = custom_questions,
                    !.section_title = payload.section_title,
                    !.question = payload.question]]
    /\ UNCHANGED <<project, custom_questions, records, uuid_next>>
    /\ IngestFrame

\* admin_add_custom_question, crud.py 456-471: the block is written.
AdminAddCommit(s) ==
    /\ ingest[s].pc = "add"
    /\ LET q == AddDefaults(ingest[s].question, uuid_next)
       IN  /\ custom_questions' =
                 add_project_custom_question(ingest[s].p_custom, ingest[s].section_title,
                                             ingest[s].question, uuid_next)
           /\ uuid_next' = IF ingest[s].question.id = NoId THEN uuid_next + 1 ELSE uuid_next
           /\ ingest' = [ingest EXCEPT ![s] =
                 [@ EXCEPT !.pc = "done", !.status = 200, !.created = Append(@, q.id)]]
    /\ UNCHANGED <<project, records>>
    /\ IngestFrame

\* admin_update_custom_question, crud.py 482-483: the project is loaded.
AdminUpdateLoad(s, payload) ==
    /\ ingest[s].pc = "start"
    /\ ingest' = [ingest EXCEPT ![s] =
          [@ EXCEPT !.pc = "update", !.op = "update",
                    !.after = {t \in Sessions : ingest[t].pc = "done"},
                    !.p_custom = custom_questions,
                    !.start_block = custom_questions,
                    !.section_title = payload.section_title,
                    !.question = payload.question]]
    /\ UNCHANGED <<project, custom_questions, records, uuid_next>>
    /\ IngestFrame

\* admin_update_custom_question, crud.py 484-531: 404 when the question is
\* not in the block, else the block is written.
AdminUpdateCommit(s) ==
    /\ ingest[s].pc = "update"
    /\ IF CustomQuestionFound(ingest[s].p_custom, ingest[s].question.id)
       THEN /\ custom_questions' =
                  update_project_custom_question(ingest[s].p_custom,
                                                 ingest[s].section_title, ingest[s].question)
            /\ ingest' = [ingest EXCEPT ![s] = [@ EXCEPT !.pc = "done", !.status = 200]]
       ELSE /\ UNCHANGED custom_questions
            /\ ingest' = [ingest EXCEPT ![s] = [@ EXCEPT !.pc = "done", !.status = 404]]
    /\ UNCHANGED <<project, records, uuid_next>>
    /\ IngestFrame

\* admin_delete_custom_question, crud.py 535-536: the project is loaded; the
\* question_id of the path is kept as the id of the question.
AdminDeleteLoad(s, question_id) ==
    /\ ingest[s].pc = "start"
    /\ ingest' = [ingest EXCEPT ![s] =
          [@ EXCEPT !.pc = "delete", !.op = "delete",
                    !.after = {t \in Sessions : ingest[t].pc = "done"},
                    !.p_custom = custom_questions,
                    !.start_block = custom_questions,
                    !.question = Posted(question_id, NoText, "", FALSE, FALSE)]]
    /\ UNCHANGED <<project, custom_questions, records, uuid_next>>
    /\ IngestFrame

\* The delete without the test `if not removed`.
AdminDeleteCommit_Unchecked(s) ==
    /\ ingest[s].pc = "delete"
    /\ custom_questions' =
          delete_project_custom_question(ingest[s].p_custom, ingest[s].question.id)
    /\ ingest' = [ingest EXCEPT ![s] = [@ EXCEPT !.pc = "done", !.status = 200]]
    /\ UNCHANGED <<project, records, uuid_next>>
    /\ IngestFrame

\* admin_delete_custom_question, crud.py 537-553: 404 when no question was
\* removed, else the block is written.
AdminDeleteCommit(s) ==
    /\ ingest[s].pc = "delete"
    /\ IF CustomQuestionFound(ingest[s].p_custom, ingest[s].question.id)
       THEN /\ custom_questions' =
                  delete_project_custom_question(ingest[s].p_custom, ingest[s].question.id)
            /\ ingest' = [ingest EXCEPT ![s] = [@ EXCEPT !.pc = "done", !.status = 200]]
       ELSE /\ UNCHANGED custom_questions
            /\ ingest' = [ingest EXCEPT ![s] = [@ EXCEPT !.pc = "done", !.status = 404]]
    /\ UNCHANGED <<project, records, uuid_next>>
    /\ IngestFrame

\* get_db, auth.py 38-44: the session of an answered request is closed and
\* a new one serves the next request, while the block and the uuids given
\* out are within the bounds.
SessionClose(s) ==
    /\ ingest[s].pc = "done"
    /\ Cardinality(Places(custom_questions.sections)) < MaxQuestions
    /\ uuid_next - SeedUuids < MaxQuestions
    /\ ingest' = [ingest EXCEPT ![s] = FreshSession]
    /\ UNCHANGED <<project, custom_questions, records, uuid_next>>
    /\ IngestFrame

-----------------------------------------------------------------------------
(* The question create_record makes from one posted answer whose key is    *)
(* not in the form: _infer_question_from_value applied to a label key and *)
(* to a UUID key with metadata.                                            *)

\* n times the character c.
Repeat(c, n) == [i \in 1..n |-> c]

\* "2024-01-05"
ADate == <<"2", "0", "2", "4", "-", "0", "1", "-", "0", "5">>

\* The strings posted: dates and near dates, the words of _normalize_yes_no
\* in several spellings, strings of 80 and 81 characters.
InferStrings ==
    {ADate, <<" ">> \o ADate \o <<" ">>, ADate \o <<"x">>,
     [ADate EXCEPT ![5] = "/"], SubSeq(ADate, 1, 9), [ADate EXCEPT ![1] = "x"],
     Repeat(" ", 71) \o ADate,
     <<>>, Repeat("a", 80), Repeat("a", 81),
     <<"y", "e", "s">>, <<" ", "Y", "E", "S", " ">>, <<"Y">>, <<"t">>,
     <<"T", "r", "u", "e">>, <<"1">>, <<"n", "o">>, <<"N">>, <<"f">>,
     <<"F", "A", "L", "S", "E">>, <<"0">>, <<"m", "a", "y", "b", "e">>, <<"2">>}

\* The values posted that are not objects.
InferScalars ==
    {BoolVal(TRUE), BoolVal(FALSE), NumVal(0), NumVal(1), NumVal(7),
     FloatVal(0), FloatVal(10), FloatVal(25), Null, ListVal(<< <<"a">> >>)}
    \cup {StrVal(str) : str \in InferStrings}

\* The objects posted: with or without type, qtype, value, answer, options
\* and value_map; text is the metadata a UUID key needs.
InferObjects ==
    {[k |-> "meta", text |-> <<"q">>, type |-> type, qtype |-> qtype,
      value |-> value, answer |-> answer, options |-> options,
      value_map |-> value_map] :
        type \in {"", "yes_no", "dropdown"},
        qtype \in {"", "numeric"},
        value \in {Absent, BoolVal(TRUE), StrVal(<<" ", "N", "o", " ">>),
                   NumVal(1), FloatVal(10), StrVal(<<"a">>)},
        answer \in {Absent, StrVal(<<"Y">>)},
        options \in {Absent, ListVal(<< <<"a">>, <<"b">> >>), StrVal(<<"a">>)},
        value_map \in {Absent, DictVal("m1")}}

\* A posted entry whose key is unknown and that create_record does not reject.
InferInputs ==
    {Entry(LabelKey(<<" ", "L">>), raw) : raw \in InferScalars \cup InferObjects}
    \cup {Entry(IdKey(-1), raw) : raw \in InferObjects}

NoQuestion == Posted(NoId, NoText, "", FALSE, FALSE)

InferIdle ==
    infer = [phase |-> "idle", key |-> LabelKey(<<>>), raw |-> Null,
             qdef |-> NoQuestion, value |-> Null]

InferInit ==
    \E e \in InferInputs :
        infer = [phase |-> "input", key |-> e.key, raw |-> e.value,
                 qdef |-> NoQuestion, value |-> Null]

\* main.py 497-505: a label key, the question is made from the posted value.
InferFromLabel ==
    /\ infer.phase = "input"
    /\ ~is_uuid(infer.key)
    /\ infer' = [infer EXCEPT
                    !.phase = "done",
                    !.qdef = infer_question_from_value(infer.key.s, infer.raw,
                                                       uuid_next + 1),
                    !.value = NormalizedValue(infer.raw)]
    /\ uuid_next' = uuid_next + 1
    /\ InferFrame

\* main.py 470-477: an unknown UUID key with metadata, the question is made
\* from the type and the value of the object and takes the key as its id.
InferFromUuid ==
    /\ infer.phase = "input"
    /\ is_uuid(infer.key) /\ infer.raw.k = "meta" /\ HasText(infer.raw.text)
    /\ LET meta == UuidMeta(infer.raw)
       IN  infer' = [infer EXCEPT
                        !.phase = "done",
                        !.qdef = [infer_question_from_value(infer.raw.text, meta,
                                                            uuid_next + 1)
                                     EXCEPT !.id = infer.key.id],
                        !.value = NormalizedValue(meta)]
    /\ uuid_next' = uuid_next + 1
    /\ InferFrame

InferNext == InferFromLabel \/ InferFromUuid

-----------------------------------------------------------------------------
(* Registration with an invite: register of main.py and                    *)
(* use_invite_and_create_user of crud.py.  The database runs READ          *)
(* COMMITTED: a statement sees the rows committed before it, and the       *)
(* UPDATE of a row another transaction has updated waits for its commit    *)
(* and then writes over it.                                                *)

InviteKeys == {"k1", "k2"}

Emails == {"a@x", "b@x"}

NoEmail == ""

RegSessions == {"r1", "r2"}

\* What POST /api/register is sent: the key, the secret (right or wrong),
\* the email, and whether the two passwords are equal and short enough.
RegInputs ==
    [key : InviteKeys \cup {"none"}, secret_ok : BOOLEAN, email : Emails,
     password_ok : BOOLEAN]

IdleRegistration ==
    [pc |-> "start", key |-> "none", email |-> NoEmail, make_admin |-> FALSE,
     status |-> 0, user_id |-> 0]

\* The administrator and two invites, k2 bound to an email.
InviteIdle ==
    /\ invites = [k \in InviteKeys |->
                    [used |-> FALSE, used_by_user_id |-> 0,
                     email |-> IF k = "k2" THEN "a@x" ELSE NoEmail]]
    /\ users = {[id |-> 1, email |-> "admin@x", is_admin |-> TRUE]}
    /\ registration = [r \in RegSessions |-> IdleRegistration]

InviteInit == InviteIdle

\* get_admin_count
get_admin_count == Cardinality({u \in users : u.is_admin})

\* use_invite_and_create_user, lines 257-269: the status of the checks, 200
\* when all pass.
InviteChecks(in) ==
    IF in.key \notin InviteKeys \/ invites[in.key].used THEN 400
    ELSE IF ~in.secret_ok THEN 400
    ELSE IF invites[in.key].email # NoEmail /\ invites[in.key].email # in.email THEN 400
    ELSE IF \E u \in users : u.email = in.email THEN 400
    ELSE 200

\* register, lines 281-286, and use_invite_and_create_user, lines 257-269:
\* the passwords are checked, the admins counted, the invite and the user of
\* the email selected.
RegisterCheck(r, in) ==
    /\ registration[r].pc = "start"
    /\ registration' = [registration EXCEPT ![r] =
          IF ~in.password_ok \/ InviteChecks(in) # 200
          THEN [@ EXCEPT !.pc = "done", !.key = in.key, !.email = in.email,
                         !.status = 400]
          ELSE [@ EXCEPT !.pc = "insert", !.key = in.key, !.email = in.email,
                         !.make_admin = (get_admin_count = 0)]]
    /\ UNCHANGED <<invites, users>>
    /\ InviteFrame

\* use_invite_and_create_user, lines 271-278: the user is inserted, the
\* invite marked used, both committed.  A user of the email committed
\* meanwhile violates the unique index of users.email.
RegisterCommit(r) ==
    /\ registration[r].pc = "insert"
    /\ IF \E u \in users : u.email = registration[r].email
       THEN /\ registration' = [registration EXCEPT ![r] =
                  [@ EXCEPT !.pc = "done", !.status = 500]]
            /\ UNCHANGED <<invites, users>>
       ELSE LET id == Cardinality(users) + 1
            IN  /\ users' = users \cup
                      {[id |-> id, email |-> registration[r].email,
                        is_admin |-> registration[r].make_admin]}
                /\ invites' = [invites EXCEPT ![registration[r].key] =
                      [@ EXCEPT !.used = TRUE, !.used_by_user_id = id]]
                /\ registration' = [registration EXCEPT ![r] =
                      [@ EXCEPT !.pc = "done", !.status = 200, !.user_id = id]]
    /\ InviteFrame

InviteNext ==
    \/ \E r \in RegSessions, in \in RegInputs : RegisterCheck(r, in)
    \/ \E r \in RegSessions : RegisterCommit(r)

-----------------------------------------------------------------------------
(* Cookie sessions: issue_session, revoke_session, cleanup_expired_sessions *)
(* and get_current_user of auth.py.  Time is counted in whole steps of the *)
(* clock; a token is the number new_key gave out.                          *)

\* Tokens given out.
MaxTokens == 2

\* The last time of the clock.
MaxTime == 2

\* SESSION_TTL_HOURS, in steps of the clock.
SessionTtl == 1

Ips == {"ip1", "ip2"}

UserAgents == {"ua1", "ua2"}

\* No cookie in the request.
NoCookie == 0

\* The one user; its API token is the valid bearer token.
TheUser == 1

Unauthenticated == [status |-> 401, auth_type |-> "none", user_id |-> 0]

Authenticated(auth_type) == [status |-> 200, auth_type |-> auth_type, user_id |-> TheUser]

\* A request: the session cookie, the fingerprint, and whether it carries
\* the bearer token of the user.
\* The fingerprints of the clients: one client, the same behind another
\* address, and the same with another browser.
Fingerprints == {<<"ip1", "ua1">>, <<"ip2", "ua1">>, <<"ip1", "ua2">>}

Requests ==
    {r \in [cookie : 0..MaxTokens, ip : Ips, user_agent : UserAgents, bearer : BOOLEAN] :
        <<r.ip, r.user_agent>> \in Fingerprints}

SessionIdle ==
    /\ sessions = {}
    /\ next_token = 1
    /\ utcnow = 0
    /\ auth = [op |-> "none", request |-> [cookie |-> NoCookie, ip |-> "ip1",
                                          user_agent |-> "ua1", bearer |-> FALSE],
               result |-> Unauthenticated]

SessionInit == SessionIdle

\* The rows of the token.
SessionRows(token) == {r \in sessions : r.token = token}

\* get_current_user, line 112: the cookie is refused.
SessionRefused(req) ==
    \/ SessionRows(req.cookie) = {}
    \/ \E r \in SessionRows(req.cookie) : r.revoked \/ r.expires_at < utcnow

\* get_current_user, line 116: the fingerprint is not that of the session.
FingerprintMismatch(req) ==
    \E r \in SessionRows(req.cookie) : r.ip # req.ip \/ r.user_agent # req.user_agent

\* revoke_session, and lines 117-118: revoked_at is set.
Revoked(token) ==
    {IF r.token = token THEN [r EXCEPT !.revoked = TRUE] ELSE r : r \in sessions}

\* The result of get_current_user with the bearer token tried first.
CurrentUser_BearerFirst(req) ==
    IF req.bearer THEN Authenticated("api_token")
    ELSE IF req.cookie # NoCookie
    THEN (IF SessionRefused(req) \/ FingerprintMismatch(req) THEN Unauthenticated
          ELSE Authenticated("session"))
    ELSE Unauthenticated

\* The result of get_current_user.
CurrentUser(req) ==
    IF req.cookie # NoCookie
    THEN (IF SessionRefused(req) \/ FingerprintMismatch(req) THEN Unauthenticated
          ELSE Authenticated("session"))
    ELSE IF req.bearer THEN Authenticated("api_token")
    ELSE Unauthenticated

\* The sessions table after get_current_user: a mismatch revokes.
AfterCurrentUser(req) ==
    IF req.cookie # NoCookie /\ ~SessionRefused(req) /\ FingerprintMismatch(req)
    THEN Revoked(req.cookie)
    ELSE sessions

\* login, main.py 247-255, and issue_session: a session for the fingerprint.
Login(ip, user_agent, password_ok) ==
    /\ next_token <= MaxTokens
    /\ IF password_ok
       THEN /\ sessions' = sessions \cup
                  {[token |-> next_token, user_id |-> TheUser, ip |-> ip,
                    user_agent |-> user_agent, expires_at |-> utcnow + SessionTtl,
                    revoked |-> FALSE]}
            /\ next_token' = next_token + 1
            /\ auth' = [op |-> "login",
                        request |-> [cookie |-> NoCookie, ip |-> ip,
                                     user_agent |-> user_agent, bearer |-> FALSE],
                        result |-> Authenticated("session")]
       ELSE /\ UNCHANGED <<sessions, next_token>>
            /\ auth' = [op |-> "login",
                        request |-> [cookie |-> NoCookie, ip |-> ip,
                                     user_agent |-> user_agent, bearer |-> FALSE],
                        result |-> Unauthenticated]
    /\ UNCHANGED utcnow
    /\ SessionFrame

\* A route that depends on get_current_user.
Request(req) ==
    /\ auth' = [op |-> "request", request |-> req, result |-> CurrentUser(req)]
    /\ sessions' = AfterCurrentUser(req)
    /\ UNCHANGED <<next_token, utcnow>>
    /\ SessionFrame

\* logout, main.py 270-276: the authenticated user's cookie is revoked.
Logout(req) ==
    /\ auth' = [op |-> "logout", request |-> req, result |-> CurrentUser(req)]
    /\ sessions' = IF CurrentUser(req).status = 200 /\ req.cookie # NoCookie
                   THEN Revoked(req.cookie)
                   ELSE AfterCurrentUser(req)
    /\ UNCHANGED <<next_token, utcnow>>
    /\ SessionFrame

\* cleanup_expired_sessions
CleanupExpiredSessions ==
    /\ sessions' = {r \in sessions : ~(r.expires_at < utcnow)}
    /\ sessions' # sessions
    /\ UNCHANGED <<next_token, utcnow, auth>>
    /\ SessionFrame

\* Time passes.
Tick ==
    /\ utcnow < MaxTime
    /\ utcnow' = utcnow + 1
    /\ UNCHANGED <<sessions, next_token, auth>>
    /\ SessionFrame

SessionNext ==
    \/ \E fp \in Fingerprints, password_ok \in BOOLEAN : Login(fp[1], fp[2], password_ok)
    \/ \E req \in Requests : Request(req)
    \/ \E req \in Requests : Logout(req)
    \/ CleanupExpiredSessions
    \/ Tick

-----------------------------------------------------------------------------
(* Editing and reviewing one record: PUT /api/records/{id} and             *)
(* POST /api/records/{id}/review.  Each request has its own SQLAlchemy     *)
(* session: the Record it loads stays in the identity map, db.get gives    *)
(* that object back, and the UPDATE of the commit names the columns whose  *)
(* value differs from the loaded one.                                      *)

\* Commits on the record.
MaxCommits == 4

RecordSessions == {"s1", "s2"}

PostedAnswers == {"a1", "a2"}

ReviewStatuses == {"pending", "approved", "rejected"}

\* None in a nullable column of text.
NoValue == "null"

\* None in a nullable column of user ids or of times.
Unset == 0

ReviewComments == {NoValue, "ok"}

\* The author of the record, and the admin.
Author == 1

Admin == 2

\* The columns of the row.
RecordColumns ==
    {"answers", "updated_by_user_id", "updated_at", "review_status",
     "review_comment", "reviewed_at", "reviewed_by_user_id"}

\* The row create_record inserts, crud.py 561-565, with the column defaults.
CreatedRecord ==
    [answers |-> "a0", updated_by_user_id |-> Unset, updated_at |-> Unset,
     review_status |-> "pending", review_comment |-> NoValue,
     reviewed_at |-> Unset, reviewed_by_user_id |-> Unset]

NoRequest == [op |-> "none", loaded |-> CreatedRecord, object |-> CreatedRecord]

ReviewIdle ==
    /\ record = CreatedRecord
    /\ record_sessions = [s \in RecordSessions |-> NoRequest]
    /\ record_commits = 0

ReviewInit == ReviewIdle

\* The row after the UPDATE of a flush: the columns of the object that
\* differ from the loaded value are written, the others are left.
Flushed(row, loaded, object) ==
    [c \in RecordColumns |-> IF object[c] # loaded[c] THEN object[c] ELSE row[c]]

\* crud.update_record, lines 604-612: the assignments on the object.
Edited(object, user_id, answers, utc) ==
    [object EXCEPT !.answers = answers,
                   !.updated_by_user_id = user_id,
                   !.updated_at = utc,
                   !.review_status = "pending",
                   !.review_comment = NoValue,
                   !.reviewed_at = Unset,
                   !.reviewed_by_user_id = Unset]

\* crud.review_record, lines 620-623: the assignments on the object.
Reviewed(object, admin_user_id, status, comment, utc) ==
    [object EXCEPT !.review_status = status,
                   !.review_comment = comment,
                   !.reviewed_at = utc,
                   !.reviewed_by_user_id = admin_user_id]

\* main.update_record, line 678: get_record loads the row.
UpdateLoad(s) ==
    /\ record_sessions[s].op = "none"
    /\ record_commits < MaxCommits
    /\ record_sessions' = [record_sessions EXCEPT ![s] =
          [op |-> "update", loaded |-> record, object |-> record]]
    /\ UNCHANGED <<record, record_commits>>
    /\ ReviewFrame

\* crud.update_record: db.get gives the loaded object, it is edited and
\* committed.
UpdateCommit(s, answers) ==
    /\ record_sessions[s].op = "update"
    /\ record_commits < MaxCommits
    /\ LET obj == Edited(record_sessions[s].object, Author, answers, record_commits + 1)
       IN  /\ record' = Flushed(record, record_sessions[s].loaded, obj)
           /\ record_sessions' = [record_sessions EXCEPT ![s] =
                 [op |-> "updated", loaded |-> record_sessions[s].loaded, object |-> obj]]
    /\ record_commits' = record_commits + 1
    /\ ReviewFrame

\* crud.review_record: the row is loaded, reviewed and committed.
review_record(s, status, comment) ==
    /\ record_sessions[s].op = "none"
    /\ record_commits < MaxCommits
    /\ LET obj == Reviewed(record, Admin, status, comment, record_commits + 1)
       IN  /\ record' = Flushed(record, record, obj)
           /\ record_sessions' = [record_sessions EXCEPT ![s] =
                 [op |-> "reviewed", loaded |-> record, object |-> obj]]
    /\ record_commits' = record_commits + 1
    /\ ReviewFrame

\* The response is sent and the session closed, auth.get_db.
RecordRequestEnd(s) ==
    /\ record_sessions[s].op \in {"updated", "reviewed"}
    /\ record_sessions' = [record_sessions EXCEPT ![s] = NoRequest]
    /\ UNCHANGED <<record, record_commits>>
    /\ ReviewFrame

ReviewNext ==
    \/ \E s \in RecordSessions : UpdateLoad(s)
    \/ \E s \in RecordSessions, answers \in PostedAnswers : UpdateCommit(s, answers)
    \/ \E s \in RecordSessions, status \in ReviewStatuses, comment \in ReviewComments :
          review_record(s, status, comment)
    \/ \E s \in RecordSessions : RecordRequestEnd(s)

-----------------------------------------------------------------------------
(* The rate limiter of middleware.py.  Time is counted in whole steps; the *)
(* window of 60 seconds is WindowSeconds steps long.                       *)

\* The last time of the clock.
MaxClock == 5

\* window_seconds, in steps of the clock.
WindowSeconds == 2

\* RATE_LIMIT_RPM
RateLimitRpm == 2

\* The keys _rate_key gives: a session cookie and a bearer token.
RateKeys == {"sess:1", "api:1"}

\* _rate_key gives None: no cookie and no bearer token.
NoKey == "None"

LimiterIdle ==
    /\ limiter_hits = [k \in RateKeys |-> <<>>]
    /\ clock = 0
    /\ allowed = [k \in RateKeys |-> <<>>]
    /\ limited = [key |-> NoKey, time |-> 0, status |-> 200]

LimiterInit == LimiterIdle

\* The deque without the times at its head that lie the window back or more.
RECURSIVE DropOld_Inclusive(_, _)
DropOld_Inclusive(q, t) ==
    IF q # <<>> /\ (t - Head(q)) >= WindowSeconds THEN DropOld_Inclusive(Tail(q), t) ELSE q

\* allow, lines 63-64: the deque without the times at its head that lie
\* more than the window back.
RECURSIVE DropOld(_, _)
DropOld(q, t) ==
    IF q # <<>> /\ (t - Head(q)) > WindowSeconds THEN DropOld(Tail(q), t) ELSE q

\* allow, line 66: the answer for the deque after the drop.
Allows(q, limit_per_minute) == ~(Len(q) >= limit_per_minute)

\* dispatch for a request with a key: allow(key, RATE_LIMIT_RPM), then 429
\* or the call of the route.
DispatchKeyed(key) ==
    LET q == DropOld(limiter_hits[key], clock)
    IN  IF Allows(q, RateLimitRpm)
        THEN /\ limiter_hits' = [limiter_hits EXCEPT ![key] = Append(q, clock)]
             /\ allowed' = [allowed EXCEPT ![key] = Append(@, clock)]
             /\ limited' = [key |-> key, time |-> clock, status |-> 200]
             /\ UNCHANGED clock
             /\ LimiterFrame
        ELSE /\ limiter_hits' = [limiter_hits EXCEPT ![key] = q]
             /\ limited' = [key |-> key, time |-> clock, status |-> 429]
             /\ UNCHANGED <<allowed, clock>>
             /\ LimiterFrame

\* dispatch for a request without a key: the route is called.
DispatchUnkeyed ==
    /\ limited' = [key |-> NoKey, time |-> clock, status |-> 200]
    /\ UNCHANGED <<limiter_hits, allowed, clock>>
    /\ LimiterFrame

\* Time passes.
ClockTick ==
    /\ clock < MaxClock
    /\ clock' = clock + 1
    /\ UNCHANGED <<limiter_hits, allowed, limited>>
    /\ LimiterFrame

LimiterNext ==
    \/ \E key \in RateKeys : DispatchKeyed(key)
    \/ DispatchUnkeyed
    \/ ClockTick

-----------------------------------------------------------------------------
(* Access to projects: accessible_projects_query and set_user_projects of  *)
(* crud.py, _require_project_access, project_form, create_record and the   *)
(* admin routes on projects of main.py.                                    *)

\* The projects of the table, and an id no project has.
AccessProjects == {1, 2}

MissingProject == 3

\* The users: Author is no admin, Admin is one.
AccessUsers == {Author, Admin}

is_admin(user) == user = Admin

AccessIdle ==
    /\ project_rows = [p \in AccessProjects |-> [closed |-> FALSE, deleted |-> FALSE]]
    /\ user_project_access = [u \in AccessUsers |-> [assigned |-> {}, banned |-> {}]]
    /\ served = [op |-> "none", user |-> Author, project_id |-> MissingProject, status |-> 200]

AccessInit == AccessIdle

\* accessible_projects_query without the filter on the banned list.
accessible_projects_query_Unbanned(user_id, include_closed, include_deleted) ==
    LET open == IF ~include_closed
                THEN {p \in AccessProjects : ~project_rows[p].closed}
                ELSE AccessProjects
        kept == IF ~include_deleted THEN {p \in open : ~project_rows[p].deleted} ELSE open
    IN  IF user_project_access[user_id].assigned # {}
        THEN kept \cap user_project_access[user_id].assigned
        ELSE kept

\* accessible_projects_query: the ids of the projects the query selects.
accessible_projects_query(user_id, include_closed, include_deleted) ==
    LET assigned == user_project_access[user_id].assigned
        banned == user_project_access[user_id].banned
        open == IF ~include_closed
                THEN {p \in AccessProjects : ~project_rows[p].closed}
                ELSE AccessProjects
        kept == IF ~include_deleted THEN {p \in open : ~project_rows[p].deleted} ELSE open
        listed == IF assigned # {} THEN kept \cap assigned ELSE kept
    IN  IF banned # {} THEN listed \ banned ELSE listed

\* _require_project_access: the project is among those the query selects.
require_project_access(user, project_id, include_closed) ==
    project_id \in accessible_projects_query(user, include_closed, FALSE)

\* GET /api/projects/{project_id}/form
project_form(user, project_id) ==
    /\ served' = [op |-> "form", user |-> user, project_id |-> project_id,
                  status |-> IF require_project_access(user, project_id, is_admin(user))
                             THEN 200 ELSE 403]
    /\ UNCHANGED <<project_rows, user_project_access>>
    /\ AccessFrame

\* POST /api/projects/{project_id}/records, with answers that pass the
\* validation or not.
PostRecord(user, project_id, valid) ==
    /\ served' = [op |-> "record", user |-> user, project_id |-> project_id,
                  status |-> IF ~require_project_access(user, project_id, is_admin(user))
                             THEN 403
                             ELSE IF valid THEN 200 ELSE 400]
    /\ UNCHANGED <<project_rows, user_project_access>>
    /\ AccessFrame

\* PUT /api/admin/users/{user_id}/projects: set_user_projects
set_user_projects(user_id, assigned, banned) ==
    /\ user_project_access' = [user_project_access EXCEPT ![user_id] =
          [assigned |-> assigned, banned |-> banned]]
    /\ UNCHANGED <<project_rows, served>>
    /\ AccessFrame

\* PATCH /api/admin/projects/{project_id}
admin_update_project(project_id, closed) ==
    /\ project_rows' = [project_rows EXCEPT ![project_id].closed = closed]
    /\ UNCHANGED <<user_project_access, served>>
    /\ AccessFrame

\* DELETE /api/admin/projects/{project_id}
admin_delete_project(project_id) ==
    /\ project_rows' = [project_rows EXCEPT ![project_id] = [closed |-> TRUE, deleted |-> TRUE]]
    /\ UNCHANGED <<user_project_access, served>>
    /\ AccessFrame

AccessNext ==
    \/ \E user \in AccessUsers, project_id \in AccessProjects \cup {MissingProject} :
          project_form(user, project_id)
    \/ \E user \in AccessUsers, project_id \in AccessProjects \cup {MissingProject},
          valid \in BOOLEAN : PostRecord(user, project_id, valid)
    \/ \E user_id \in AccessUsers, assigned \in SUBSET AccessProjects,
          banned \in SUBSET AccessProjects : set_user_projects(user_id, assigned, banned)
    \/ \E project_id \in AccessProjects, closed \in BOOLEAN :
          admin_update_project(project_id, closed)
    \/ \E project_id \in AccessProjects : admin_delete_project(project_id)

\* The models added after the first five at rest.
AuxIdle == InviteIdle /\ SessionIdle /\ ReviewIdle /\ LimiterIdle /\ AccessIdle

\* A read of the form that also stores the merged custom sections.
ReadForm_Persisting(s) ==
    /\ ingest[s].pc \in {"start", "read"}
    /\ LET custom == canonical_project_custom_questions(custom_questions, uuid_next)
       IN  /\ ingest' = [ingest EXCEPT ![s] =
                 [@ EXCEPT !.pc = "read", !.op = "read",
                           !.p_custom = custom_questions,
                           !.form = merged_project_form(TheProject, custom)]]
           /\ custom_questions' =
                 [custom EXCEPT !.sections =
                     [i \in 1..Len(custom.sections) |->
                         [custom.sections[i] EXCEPT !.title = <<"Custom", @>>]]]
    /\ uuid_next' = uuid_next + NumMissing(custom_questions)
    /\ UNCHANGED <<project, records>>
    /\ IngestFrame

\* project_form, main.py 401-414: GET /api/projects/{id}/form answers with
\* merged_project_form; the client keeps the answer and may ask again. The
\* custom block the request loaded stays in p_custom.
ReadForm(s) ==
    /\ ingest[s].pc \in {"start", "read"}
    /\ LET custom == canonical_project_custom_questions(custom_questions, uuid_next)
       IN  ingest' = [ingest EXCEPT ![s] =
              [@ EXCEPT !.pc = "read", !.op = "read",
                        !.p_custom = custom_questions,
                        !.form = merged_project_form(TheProject, custom)]]
    /\ uuid_next' = uuid_next + NumMissing(custom_questions)
    /\ UNCHANGED <<project, custom_questions, records>>
    /\ IngestFrame

\* The registry after two versions were created and assigned to TheProject
\* in either order, or the seeded one alone.
BlockRegInit ==
    /\ projects = {TheProject}
    /\ question_sets =
          {[id |-> 1, name |-> DEFAULT_QUESTION_SET_NAME, created_at |-> 1, data |-> "docA"],
           [id |-> 2, name |-> "daily", created_at |-> 2, data |-> "docA"]}
    /\ \E ids \in {<<1>>, <<1, 2>>, <<2, 1>>} :
          project_question_sets = AssignRows(TheProject, ids)
    /\ next_qs_id = 3
    /\ writer = [w \in Writers |-> IdleWriter]
    /\ response = Response("assign_project_question_sets", 200)

\* The administrator sends one request at a time.
AdminSessions == {"s1"}

\* The requests of the administrator to the custom block of TheProject.
BlockNext ==
    \/ \E s \in AdminSessions, payload \in AdminPayloads : AdminAddLoad(s, payload)
    \/ \E s \in AdminSessions : AdminAddCommit(s)
    \/ \E s \in AdminSessions, payload \in UpdatePayloads : AdminUpdateLoad(s, payload)
    \/ \E s \in AdminSessions : AdminUpdateCommit(s)
    \/ \E s \in AdminSessions, question_id \in DeleteIds : AdminDeleteLoad(s, question_id)
    \/ \E s \in AdminSessions : AdminDeleteCommit(s)
    \/ \E s \in AdminSessions : SessionClose(s)

\* The client that reads the form while the administrator edits the block.
Readers == {"s2"}

ReadNext ==
    \/ \E s \in AdminSessions, payload \in AdminPayloads : AdminAddLoad(s, payload)
    \/ \E s \in AdminSessions : AdminAddCommit(s)
    \/ \E s \in AdminSessions, payload \in UpdatePayloads : AdminUpdateLoad(s, payload)
    \/ \E s \in AdminSessions : AdminUpdateCommit(s)
    \/ \E s \in AdminSessions, question_id \in DeleteIds : AdminDeleteLoad(s, question_id)
    \/ \E s \in AdminSessions : AdminDeleteCommit(s)
    \/ \E s \in AdminSessions : SessionClose(s)
    \/ \E s \in Readers : ReadForm(s)

\* The administrator edits the custom block and deletes versions.
AdminNext ==
    \/ \E s \in AdminSessions, payload \in AdminPayloads : AdminAddLoad(s, payload)
    \/ \E s \in AdminSessions : AdminAddCommit(s)
    \/ \E s \in AdminSessions, payload \in UpdatePayloads : AdminUpdateLoad(s, payload)
    \/ \E s \in AdminSessions : AdminUpdateCommit(s)
    \/ \E s \in AdminSessions, question_id \in DeleteIds : AdminDeleteLoad(s, question_id)
    \/ \E s \in AdminSessions : AdminDeleteCommit(s)
    \/ \E s \in AdminSessions : SessionClose(s)
    \/ \E id \in 1..MaxVersions : delete_question_set(id)

IngestNext ==
    \/ \E s \in Sessions, payload \in IngestPayloads : IngestLoad(s, payload)
    \/ \E s \in Sessions : IngestKey(s)
    \/ \E s \in Sessions : IngestRefresh(s)
    \/ \E s \in Sessions : IngestFinish(s)
    \/ \E s \in Sessions, payload \in AdminPayloads : AdminAddLoad(s, payload)
    \/ \E s \in Sessions : AdminAddCommit(s)

-----------------------------------------------------------------------------
(* Properties of the version registry. *)

\* The call of session w meets the table as a call running alone does: its
\* version is stored and, being new, is referenced by no assignment.
RunsAlone(w) ==
    /\ QsRows(writer[w].qs) # {}
    /\ \A r \in project_question_sets : r.question_set_id # writer[w].qs

\* Session w starts, respectively finishes, create_question_set in this step.
Starts(w) == writer[w].pc = "idle" /\ writer'[w].pc = "upgrade"

Finishes(w) == writer[w].pc = "upgrade" /\ writer'[w].pc = "idle"

\* C1: when create_question_set(name, ...) has finished, every project that
\* held an assignment to an older version of the name holds exactly one
\* assignment to a version of the name, it references the new version, and
\* its position is that of an assignment it replaced.
C1_AutoUpgradeRewritesEveryProject ==
    [][\A w \in Writers :
          (Finishes(w) /\ RunsAlone(w)) =>
             \A p \in projects :
                LET old == LinksOf(OldRows(writer[w].name, writer[w].qs), p)
                    after == LinksOf(RowsOfName(project_question_sets', writer[w].name), p)
                IN  old # {} =>
                       /\ Cardinality(after) = 1
                       /\ \A r \in after :
                             /\ r.question_set_id = writer[w].qs
                             /\ \E o \in old : o.position = r.position]_vars

\* C2: in the state committed by each step of create_question_set(name, ...)
\* no project has lost all its assignments to the name, and no project has
\* assignments to two different versions of the name.
C2_NeverZeroNeverTwo ==
    [][\A w \in Writers :
          (Starts(w) \/ (Finishes(w) /\ RunsAlone(w))) =>
             \A p \in projects :
                LET nameW == IF Starts(w) THEN writer'[w].name ELSE writer[w].name
                    before == LinksOf(RowsOfName(project_question_sets, nameW), p)
                    now == LinksOf(RowsOfName(project_question_sets', nameW), p)
                IN  /\ before # {} => now # {}
                    /\ \A r1, r2 \in now :
                          r1.question_set_id = r2.question_set_id]_vars

\* C3: no committed state shows the new version stored, and the latest of its
\* name, while an assignment still references an older version of that name.
C3_VersionAndRewriteAreOneTransaction ==
    \A w \in Writers :
       (/\ writer[w].pc = "upgrade"
        /\ RunsAlone(w)
        /\ QsRows(writer[w].qs) = LatestByName(writer[w].name))
          => OldRows(writer[w].name, writer[w].qs) = {}


\* C25: the auto-upgrade that ends a create_question_set call leaves alone
\* every assignment to a version of the name newer than the one the call
\* created; and when the other calls have finished and every assignment to
\* the name references its latest version, that is still so after the call.
C25_UpgradeRewritesOnlyOlderVersions ==
    [][\A w \in Writers, name \in Names :
          (Finishes(w) /\ writer[w].name = name) =>
             /\ \A r \in RowsOfName(project_question_sets, name) :
                   r.question_set_id > writer[w].qs => r \in project_question_sets'
             /\ (/\ \A o \in Writers \ {w} : writer[o].pc = "idle"
                 /\ \A r \in RowsOfName(project_question_sets, name) :
                       QsRows(r.question_set_id) = LatestByName(name))
                => \A r \in RowsOfName(project_question_sets', name) :
                      r.question_set_id \in {q.id : q \in LatestByName(name)}]_vars

\* The assignments of the table that reference no version of the name
\* among the versions qsets.
RowsOfOtherNames(tbl, qsets, name) ==
    {r \in tbl : \A q \in qsets : q.id = r.question_set_id => q.name # name}

\* C33: a step of create_question_set(name, ..), the insert or the upgrade,
\* leaves the assignments to versions of other names as they are, in
\* project, version and position, and leaves the custom block alone.
C33_CreateLeavesOtherNamesAlone ==
    [][\A w \in Writers, name \in Names :
          (\/ Starts(w) /\ writer'[w].name = name
           \/ Finishes(w) /\ writer[w].name = name)
          => /\ RowsOfOtherNames(project_question_sets', question_sets', name)
                   = RowsOfOtherNames(project_question_sets, question_sets, name)
             /\ UNCHANGED custom_questions]_vars

\* create_question_set has finished with a project that holds assignments to
\* versions of two names, one of them to a version that is not the first of
\* its name.
C33_Witness ==
    /\ response = Response("create_question_set", 200)
    /\ \E r1, r2 \in project_question_sets :
          /\ r1.project_id = r2.project_id
          /\ NameOf(r1.question_set_id) # NameOf(r2.question_set_id)
          /\ \E q \in question_sets :
                q.name = NameOf(r1.question_set_id) /\ q.id < r1.question_set_id

\* C14: a stored version is never mutated: a row of question_sets that is
\* still stored after a step is the row it was before, in name, created_at
\* and data.
C14_VersionsAreImmutable ==
    [][\A q \in question_sets :
          (\E o \in question_sets' : o.id = q.id) => q \in question_sets']_vars

\* A second version of a name has been created and its auto-upgrade has
\* committed while the first version is still stored.
C14_Witness ==
    /\ response = Response("create_question_set", 200)
    /\ Cardinality({q \in question_sets : q.name = DEFAULT_QUESTION_SET_NAME}) >= 2
    /\ QsRows(1) # {}
    /\ project_question_sets # {}

C19_DeleteRemovesOneVersion ==
    [][\A id \in 1..MaxVersions :
          (QsRows(id) # {} /\ (\A q \in question_sets' : q.id # id))
          => /\ question_sets' = question_sets \ QsRows(id)
             /\ project_question_sets' =
                   {r \in project_question_sets : r.question_set_id # id}]_vars

\* A version has been deleted while another version of its name and an
\* assignment to another version are stored.
C19_Witness ==
    /\ response = Response("delete_question_set", 200)
    /\ QsRows(1) = {}
    /\ \E q \in question_sets : q.name = DEFAULT_QUESTION_SET_NAME
    /\ project_question_sets # {}

\* latest_question_set_by_name(name) as the claim words it: the stored
\* version of the name with the greatest created_at, or none.
IsLatest(res, name) ==
    LET rows == {q \in question_sets : q.name = name}
    IN  /\ rows = {} => res = {}
        /\ rows # {} => /\ Cardinality(res) = 1
                        /\ res \subseteq rows
                        /\ \A q \in res, o \in rows : o.created_at <= q.created_at

\* C20: latest_question_set_by_name returns the version of the name with
\* the greatest created_at, none when there is no such version, and the new
\* version once create_question_set has committed it.
C20_LatestByName ==
    /\ [](\A name \in Names : IsLatest(LatestByName(name), name))
    /\ [][\A w \in Writers :
             Starts(w) =>
                \A name \in Names, id \in 1..MaxVersions :
                    (writer'[w].name = name /\ writer'[w].qs = id)
                    => LatestByName(name)' = QsRows(id)']_vars

\* Two versions of one name are stored, and the name without a version exists.
C20_Witness ==
    /\ Cardinality({q \in question_sets : q.name = DEFAULT_QUESTION_SET_NAME}) >= 2
    /\ LatestByName("daily") = {}
    /\ \E w \in Writers : writer[w].pc = "upgrade"

-----------------------------------------------------------------------------
(* Properties of the canonicalizer. *)

\* C7: canonicalize(canonicalize(x)) = canonicalize(x), ids and normalized
\* options included.
C7_CanonicalizeIsIdempotent ==
    canon.phase = "twice" => canon.twice = canon.once

\* The ids of a list of sections.
IdsIn(sections) == {QuestionAt(sections, pl).id : pl \in Places(sections)}

\* `after` has the sections and questions of `before` in the same order, every
\* id of `before` kept, and ids made by uuid4 (pairwise distinct, used nowhere
\* in `before`) exactly where `before` had none.
KeepsIdsAndOrder(before, after) ==
    /\ Len(after) = Len(before)
    /\ \A i \in 1..Len(before) :
          /\ after[i].title = before[i].title
          /\ Len(after[i].questions) = Len(before[i].questions)
    /\ \A pl \in Places(before) :
          LET b == QuestionAt(before, pl)
              a == QuestionAt(after, pl)
          IN  /\ a.text = b.text /\ a.type = b.type /\ a.required = b.required
              /\ b.id # NoId => a.id = b.id
              /\ b.id = NoId => (a.id > 0 /\ a.id \notin IdsIn(before))
    /\ \A p1, p2 \in Places(before) :
          QuestionAt(after, p1).id = QuestionAt(after, p2).id => p1 = p2

\* C8: canonicalizing a canonical document keeps every id a question carries,
\* generates ids only for the questions without one, and keeps the order of
\* sections and questions.
C8_CanonicalIdsAreStable ==
    /\ (canon.phase \in {"once", "twice"} /\ canon.raw.shape = "canonical")
          => KeepsIdsAndOrder(canon.raw.sections, canon.once.sections)
    /\ canon.phase = "twice"
          => KeepsIdsAndOrder(canon.once.sections, canon.twice.sections)

\* A canonical document of two sections, with a question that carries an id
\* and questions that do not, has been canonicalized twice.
C8_Witness ==
    /\ canon.phase = "twice"
    /\ canon.raw.shape = "canonical"
    /\ Len(canon.raw.sections) = 2
    /\ -2 \in IdsIn(canon.raw.sections)
    /\ -2 \in IdsIn(canon.twice.sections)
    /\ NumMissing(canon.raw) = 2

\* C21: to_canonical_question_set raises for no input.
C21_CanonicalizeNeverRaises == canon.phase # "raised"

\* The canonical form of a payload of unrecognized shape is titled with the
\* fallback name and has exactly one section, titled `title`, without questions.
UnknownShapeGives(title) ==
    (canon.phase \in {"once", "twice"} /\ canon.raw.shape = "other")
    => /\ canon.once.title = canon.fallback
       /\ Len(canon.once.sections) = 1
       /\ canon.once.sections[1].title = title
       /\ canon.once.sections[1].questions = <<>>

\* C30 as stated: for an input of unrecognized shape the document is titled
\* fallback_name and has exactly one section, with an empty title and zero
\* questions.
C30_UnknownShapeOneEmptyTitledSection == UnknownShapeGives("")

\* C30, amended: for an input of unrecognized shape the document is titled
\* fallback_name and has exactly one section, titled "Section", with zero
\* questions.
C30_UnknownShapeOneSectionNamedSection == UnknownShapeGives("Section")

\* A payload of unrecognized shape has been canonicalized under the name daily.
C30_Witness ==
    canon.phase = "once" /\ canon.raw.shape = "other" /\ canon.fallback = "daily"

\* A list of non-empty strings without white space at either end.
TrimmedList(v) ==
    /\ v.k = "list"
    /\ \A i \in 1..Len(v.l) :
          /\ v.l[i] # <<>>
          /\ ~IsSpace(v.l[i][1]) /\ ~IsSpace(v.l[i][Len(v.l[i])])

\* The options normalization gives for the options opts of a dropdown that
\* are a string or a list.
OptionsExpected(opts) ==
    IF opts.k = "str" THEN split_nonempty_lines(opts.s)
    ELSE IF opts.l # <<>> /\ \A i \in 1..Len(opts.l) : Len(opts.l[i]) <= 1
    THEN split_nonempty_lines(Join(opts.l))
    ELSE SelectSeq([i \in 1..Len(opts.l) |-> Strip(opts.l[i])], NonEmpty)

C16_NoEmptySectionIsPersisted ==
    canon.phase \in {"once", "twice"}
    => \A i \in 1..Len(canon.once.sections) : canon.once.sections[i].questions # <<>>

-----------------------------------------------------------------------------
(* Properties of the merged form and of the custom block. *)

\* The assignment of TheProject with k - 1 assignments at a smaller position.
KthLink(k) ==
    CHOOSE r \in LinksOf(project_question_sets, TheProject) :
        Cardinality({o \in LinksOf(project_question_sets, TheProject) :
                        o.position < r.position}) = k - 1

\* The sections of the version of the k-th assignment, titled with the
\* title of the version, their questions as stored.
VersionSections(k) ==
    LET sdata == StoredData(CHOOSE qs \in question_sets : qs.id = KthLink(k).question_set_id)
    IN  [i \in 1..Len(sdata.sections) |->
            [title |-> <<sdata.title, sdata.sections[i].title>>,
             questions |-> sdata.sections[i].questions]]

\* The sections of the first k assignments.
RECURSIVE VersionsUpTo(_)
VersionsUpTo(k) == IF k = 0 THEN <<>> ELSE VersionsUpTo(k - 1) \o VersionSections(k)

\* The sections of the stored custom block under "Custom", questions as stored.
CustomSections ==
    [i \in 1..Len(custom_questions.sections) |->
        [title |-> <<"Custom", custom_questions.sections[i].title>>,
         questions |-> custom_questions.sections[i].questions]]

\* C11: the merged form is the sections of the assigned versions by
\* increasing position, each titled with its version, followed by the
\* sections of the custom block under "Custom", every question unchanged.
C11_MergedFormOrderAndQuestions ==
    merged_project_form(TheProject, custom_questions) =
       VersionsUpTo(Cardinality(LinksOf(project_question_sets, TheProject)))
          \o CustomSections

\* C17: the question ids of the custom block are pairwise distinct.
C17_CustomIdsAreDistinct ==
    \A pl1, pl2 \in Places(custom_questions.sections) :
        QuestionAt(custom_questions.sections, pl1).id
           = QuestionAt(custom_questions.sections, pl2).id
        => pl1 = pl2

\* The questions of a block other than question_id, each with the title of
\* its section.
OthersOf(block, question_id) ==
    {<<block.sections[pl[1]].title, QuestionAt(block.sections, pl)>> :
        pl \in {x \in Places(block.sections) :
                   QuestionAt(block.sections, x).id # question_id}}

\* C18: a successful update_project_custom_question of the block as stored
\* leaves exactly one question with the id, in the section of the new title
\* and in no other, and every other question of the block as it was.
C18_UpdateKeepsIdAndOthers ==
    [][\A s \in Sessions :
          (/\ ingest[s].pc = "update"
           /\ ingest'[s].pc = "done"
           /\ ingest'[s].status = 200
           /\ ingest[s].p_custom = custom_questions)
          => LET question_id == ingest[s].question.id
                 hits == {pl \in Places(custom_questions'.sections) :
                             QuestionAt(custom_questions'.sections, pl).id = question_id}
             IN  /\ Cardinality(hits) = 1
                 /\ \A pl \in hits :
                       custom_questions'.sections[pl[1]].title = ingest[s].section_title
                 /\ OthersOf(custom_questions', question_id)
                       = OthersOf(custom_questions, question_id)]_vars

-----------------------------------------------------------------------------
(* Properties of the ingestion. *)

\* Session s has been answered for a POST records request.
Ingested(s) == ingest[s].op = "ingest" /\ ingest[s].pc = "done"

\* C4: an ingestion that fails (and runs alone) leaves the custom block as it
\* found it and stores no record.
C4_FailedIngestionChangesNothing ==
    \A s \in Sessions :
        (/\ Ingested(s)
         /\ ingest[s].status # 200
         /\ \A t \in Sessions \ {s} : ingest[t].pc = "start")
        => /\ custom_questions = ingest[s].start_block
           /\ records = <<>>

\* The labels a payload uses as keys.
LabelsOf(payload) ==
    {payload[i].key.s : i \in {j \in 1..Len(payload) : ~payload[j].key.uuid}}

\* The value a payload gives under key.
ValueOf(payload, key) == AnswersOf(payload)[key]

\* C5: of two successful ingestions in succession whose payloads use labels
\* equal after _norm_label, the first adds one question with that label to
\* "Auto-created" and the second adds none and stores its answer under the
\* id of that question.
C5_SameLabelMakesOneQuestion ==
    \A s, t \in Sessions :
        (/\ Ingested(s) /\ ingest[s].status = 200
         /\ Ingested(t) /\ ingest[t].status = 200
         /\ s \in ingest[t].after)
        => \A l1 \in LabelsOf(ingest[s].payload), l2 \in LabelsOf(ingest[t].payload) :
              norm_label(l1) = norm_label(l2) =>
                 LET hits == {pl \in Places(custom_questions.sections) :
                                 norm_label(QuestionAt(custom_questions.sections, pl).text)
                                    = norm_label(l1)}
                 IN  /\ Cardinality(hits) = 1
                     /\ \A pl \in hits :
                           LET q == QuestionAt(custom_questions.sections, pl)
                           IN  /\ custom_questions.sections[pl[1]].title = "Auto-created"
                               /\ ingest[s].created = <<q.id>>
                               /\ ingest[t].created = <<>>
                               /\ IdKey(q.id) \in DOMAIN records[2].answers
                               /\ records[2].answers[IdKey(q.id)]
                                     = ValueOf(ingest[t].payload, LabelKey(l2))

\* C6: when every request has been answered, the block holds every question
\* a request added, and the merged form holds every id under which a stored
\* record has an answer.
C6_NoAddedQuestionIsLost ==
    (\A s \in Sessions : ingest[s].pc = "done")
    => /\ \A s \in Sessions : \A i \in 1..Len(ingest[s].created) :
             ingest[s].created[i] \in IdsIn(custom_questions.sections)
       /\ \A i \in 1..Len(records) : \A key \in DOMAIN records[i].answers :
             /\ key.uuid
             /\ key.id \in IdsIn(merged_project_form(TheProject, custom_questions))

\* The required questions of the form of session s that its final answers
\* leave without a value other than "" and null.
Unanswered(s) ==
    {q \in {QuestionAt(FormOf(s), pl) : pl \in Places(FormOf(s))} :
        /\ q.required
        /\ \/ IdKey(q.id) \notin DOMAIN ingest[s].answers
           \/ ingest[s].answers[IdKey(q.id)] \in {StrVal(<<>>), Null}}

\* C9: an ingestion that gets past the unknown keys succeeds only when no
\* required question is unanswered, and otherwise fails with an error that
\* names the text of every unanswered required question.
C9_RequiredAnswersOrNamedError ==
    \A s \in Sessions :
        (Ingested(s) /\ ingest[s].detail.kind # "unknown_id")
        => /\ ingest[s].status = 200 => Unanswered(s) = {}
           /\ Unanswered(s) # {} =>
                 /\ ingest[s].status = 400
                 /\ ingest[s].detail.kind = "missing"
                 /\ \A q \in Unanswered(s) :
                       \E i \in 1..Len(ingest[s].detail.texts) :
                           ingest[s].detail.texts[i] = q.text

\* C10: a stored record answers every question bound to the project with
\* the project's value: its name, and its focalpoint code when it has one.
C10_AutoQuestionsAnsweredFromProject ==
    \A s \in Sessions :
        (Ingested(s) /\ ingest[s].status = 200)
        => /\ \E i \in 1..Len(records) : records[i].answers = ingest[s].answers
           /\ \A q \in {QuestionAt(FormOf(s), pl) : pl \in Places(FormOf(s))} :
                 q.auto.k = "auto" =>
                    IF q.auto.source = "project_name"
                    THEN /\ IdKey(q.id) \in DOMAIN ingest[s].answers
                         /\ ingest[s].answers[IdKey(q.id)] = StrVal(project.name)
                    ELSE project.focalpoint_code # Null =>
                            /\ IdKey(q.id) \in DOMAIN ingest[s].answers
                            /\ ingest[s].answers[IdKey(q.id)] = project.focalpoint_code

\* The texts of the required questions of the form of session s that its
\* answers leave unanswered, in the order of the form.
MissingInFormOrder(s) ==
    LET qs == FormQuestions(FormOf(s))
        lacks(q) == /\ q.required
                    /\ \/ IdKey(q.id) \notin DOMAIN ingest[s].answers
                       \/ ingest[s].answers[IdKey(q.id)] \in {StrVal(<<>>), Null}
        missing == SelectSeq(qs, lacks)
    IN  [i \in 1..Len(missing) |-> missing[i].text]

\* C28: the missing-required-answers error names every required question
\* that is unanswered, whatever their number.
C28_ErrorReportsEveryMissingQuestion ==
    \A s \in Sessions :
        (Ingested(s) /\ ingest[s].detail.kind = "missing")
        => \A i \in 1..Len(MissingInFormOrder(s)) :
              \E j \in 1..Len(ingest[s].detail.texts) :
                  ingest[s].detail.texts[j] = MissingInFormOrder(s)[i]

\* C29: the missing-required-answers error lists the texts of the unanswered
\* required questions in the order of the form, cut after the first 10.
C29_ErrorListsFirstTenInFormOrder ==
    \A s \in Sessions :
        (Ingested(s) /\ ingest[s].detail.kind = "missing")
        => LET missing == MissingInFormOrder(s)
           IN  ingest[s].detail.texts =
                  SubSeq(missing, 1, IF Len(missing) < 10 THEN Len(missing) ELSE 10)

\* One ingestion failed with more than ten questions unanswered and its
\* error lists ten, another failed with one unanswered.
C29_Witness ==
    /\ \E s \in Sessions :
          /\ Ingested(s) /\ ingest[s].detail.kind = "missing"
          /\ Len(MissingInFormOrder(s)) > 10
          /\ Len(ingest[s].detail.texts) = 10
    /\ \E s \in Sessions :
          /\ Ingested(s) /\ ingest[s].detail.kind = "missing"
          /\ Len(MissingInFormOrder(s)) = 1

\* C22: the lookup of a form has one entry per question id of the form, and
\* each entry holds exactly text, type, required, options and value_map with
\* the values of a question of that id, null where the question has none.
C22_LookupHoldsFiveFieldsPerQuestionId ==
    LET form == merged_project_form(TheProject, custom_questions)
        qs == FormQuestions(form)
        lk == question_lookup_from_form(form)
    IN  /\ DOMAIN lk = {qs[i].id : i \in 1..Len(qs)}
        /\ \A id \in DOMAIN lk :
              /\ DOMAIN lk[id] = {"text", "type", "required", "options", "value_map"}
              /\ \E i \in 1..Len(qs) :
                    /\ qs[i].id = id
                    /\ lk[id].text = qs[i].text
                    /\ lk[id].type = qs[i].type
                    /\ lk[id].required = qs[i].required
                    /\ lk[id].options = (IF qs[i].options = Absent THEN Null
                                         ELSE qs[i].options)
                    /\ lk[id].value_map = (IF qs[i].value_map = Absent THEN Null
                                           ELSE qs[i].value_map)

\* The form holds a question bound to a project field, a question with
\* options and a custom question, and the lookup has an entry for each.
C22_Witness ==
    LET form == merged_project_form(TheProject, custom_questions)
        qs == FormQuestions(form)
        lk == question_lookup_from_form(form)
    IN  /\ \E i \in 1..Len(qs) : qs[i].auto # Absent /\ qs[i].id \in DOMAIN lk
        /\ \E i \in 1..Len(qs) : qs[i].options # Absent /\ lk[qs[i].id].options # Null
        /\ \E i \in 1..Len(qs) : qs[i].options = Absent /\ lk[qs[i].id].options = Null
        /\ custom_questions # NewCustomBlock
        /\ Len(qs) > 19

\* The ids of the questions of a form, section by section.
SectionIds(form) ==
    [i \in 1..Len(form) |->
        [j \in 1..Len(form[i].questions) |-> form[i].questions[j].id]]

\* C23: a read of the merged form leaves versions, assignments and the
\* custom block as they were, and a read that follows a read with the
\* stored block still the one the earlier read loaded (versions and
\* assignments are written by no step here) answers with the same sections
\* and the same question ids.
C23_ReadChangesNothingAndRepeats ==
    [][\A s \in Readers :
          (/\ ingest'[s].pc = "read"
           /\ ingest'[s] # ingest[s] \/ uuid_next' # uuid_next
           /\ \A t \in Sessions \ {s} : ingest'[t] = ingest[t])
          => /\ UNCHANGED <<projects, question_sets, project_question_sets,
                            project, custom_questions, records>>
             /\ (ingest[s].pc = "read" /\ ingest[s].p_custom = custom_questions)
                => /\ ingest'[s].form = ingest[s].form
                   /\ SectionIds(ingest'[s].form) = SectionIds(ingest[s].form)]_vars

\* A form was read that holds custom questions next to those of the
\* versions, and the stored block is still the one that read loaded.
C23_Witness ==
    \E s \in Readers :
        /\ ingest[s].pc = "read"
        /\ ingest[s].p_custom # NewCustomBlock
        /\ ingest[s].p_custom = custom_questions
        /\ Len(FormQuestions(ingest[s].form)) > 19

\* A question was made from a posted value that is not an object.
FromScalar == infer.phase = "done" /\ infer.raw.k # "meta"

\* The type and the value the question and its answer have when the pattern
\* of a date is matched by the strings of the set dates.
ScalarInferenceWith(isDate(_)) ==
    LET raw == infer.raw
    IN  /\ infer.qdef.type =
              (IF raw.k = "bool" THEN "yes_no"
               ELSE IF raw.k \in {"num", "float"} THEN "numeric"
               ELSE IF raw.k = "str" /\ isDate(raw.s) THEN "date"
               ELSE IF raw.k = "str" /\ Len(raw.s) > 80 THEN "long_text"
               ELSE "short_text")
        /\ raw.k = "bool" => infer.value = (IF raw.b THEN Yes ELSE No)
        /\ infer.qdef.required_given /\ ~infer.qdef.required

StrippedIsDate(str) == DateShape(Strip(str))

\* C24 as stated: the question made from a scalar is yes_no for a boolean
\* (answer "yes" or "no"), numeric for a number, date for a string that is
\* exactly four digits, hyphen, two digits, hyphen, two digits, long_text for
\* another string of more than 80 characters, short_text otherwise, and it
\* is not required.
C24_ScalarTypeWithExactDate == FromScalar => ScalarInferenceWith(DateShape)

\* C24: as above, with date for a string that has the shape of a date once
\* the white space around it is stripped.
C24_ScalarTypeWithStrippedDate == FromScalar => ScalarInferenceWith(StrippedIsDate)

\* Questions were made from a date padded with white space and from a
\* string of 81 characters.
C24_Witness ==
    /\ FromScalar
    /\ infer.raw.k = "str"
    /\ \/ infer.qdef.type = "date" /\ infer.raw.s # Strip(infer.raw.s)
       \/ infer.qdef.type = "long_text"

\* The answer a posted value carries: the value itself, or the value or the
\* answer of an object; an object under a label key that has neither is
\* its own answer, under a UUID key its answer is null.
PostedAnswer ==
    LET raw == infer.raw
    IN  IF raw.k # "meta" THEN raw
        ELSE IF raw.value # Absent THEN raw.value
        ELSE IF raw.answer # Absent THEN raw.answer
        ELSE IF is_uuid(infer.key) THEN Null ELSE raw

\* The answer stored for a yes_no question when the numbers of the set ones
\* give "yes" and those of the set zeros give "no".
YesNoStoredWith(ones, zeros) ==
    LET v == PostedAnswer
        word == IF v.k = "str" THEN lower(Strip(v.s)) ELSE <<>>
    IN  infer.value =
           (IF v = BoolVal(TRUE) \/ word \in YesWords \/ v \in ones THEN Yes
            ELSE IF v = BoolVal(FALSE) \/ word \in NoWords \/ v \in zeros THEN No
            ELSE v)

\* A question of type yes_no was made.
MadeYesNo == infer.phase = "done" /\ infer.qdef.type = "yes_no"

\* C27 as stated: the answer of a yes_no question is "yes" for true, for
\* the strings true, t, 1, yes, y in any case and with white space around,
\* and for the integer 1; "no" for false, the strings false, f, 0, no, n and
\* the integer 0; any other value is stored as posted.
C27_YesNoNormalizedIntegersOnly ==
    MadeYesNo => YesNoStoredWith({NumVal(1)}, {NumVal(0)})

\* C27: as above, with the floats 1.0 and 0.0 normalized like the integers.
C27_YesNoNormalizedNumbersOneAndZero ==
    MadeYesNo => YesNoStoredWith({NumVal(1), FloatVal(10)}, {NumVal(0), FloatVal(0)})

\* A yes_no question was made from the string " No " and stored "no".
C27_Witness ==
    /\ MadeYesNo
    /\ PostedAnswer = StrVal(<<" ", "N", "o", " ">>)
    /\ infer.value = No

\* C26: a question made from an object has the type the object carries, its
\* options when they are a list and its value_map when it is an object,
\* under a label key and under a UUID key.
C26_ObjectOverridesAppearOnQuestion ==
    (infer.phase = "done" /\ infer.raw.k = "meta")
    => LET raw == infer.raw
       IN  /\ raw.type # "" => infer.qdef.type = raw.type
           /\ raw.options.k = "list" => infer.qdef.options = raw.options
           /\ raw.value_map.k = "dict" => infer.qdef.value_map = raw.value_map

\* The question id is the id of a question of the block.
InBlock(block, question_id) ==
    \E pl \in Places(block.sections) : QuestionAt(block.sections, pl).id = question_id

\* C32: an update or a delete of a custom question whose id is not in the
\* block answers 404 and leaves the block as it was, and delete_question_set
\* with the id of no version answers 404 and leaves versions and
\* assignments as they were.
C32_AbsentEntityChangesNothing ==
    [][/\ \A s \in AdminSessions :
             (/\ ingest[s].pc \in {"update", "delete"}
              /\ ingest'[s].pc = "done"
              /\ ~InBlock(custom_questions, ingest[s].question.id))
             => /\ ingest'[s].status = 404
                /\ UNCHANGED <<custom_questions, question_sets, project_question_sets>>
       /\ \A id \in 1..MaxVersions :
             (delete_question_set(id) /\ \A qs \in question_sets : qs.id # id)
             => /\ response' = Response("delete_question_set", 404)
                /\ UNCHANGED <<question_sets, project_question_sets, custom_questions>>]_vars

\* A delete of a custom question that is not in a block with questions was
\* answered 404, after a delete of a version that does not exist was.
C32_Witness ==
    /\ response = Response("delete_question_set", 404)
    /\ custom_questions # NewCustomBlock
    /\ \E s \in AdminSessions :
          /\ ingest[s].pc = "done" /\ ingest[s].op \in {"update", "delete"}
          /\ ingest[s].status = 404
          /\ ~InBlock(custom_questions, ingest[s].question.id)

\* C34: when an ingestion stores its record, every key of the answers is
\* the id of a question of the merged form as it is stored at that moment.
C34_StoredKeysAreFormQuestions ==
    [][\A s \in Sessions :
          (ingest[s].pc = "keys" /\ ingest'[s].pc = "done" /\ ingest'[s].status = 200)
          => LET form == FormQuestions(merged_project_form(TheProject, custom_questions))
                 ids == {form[i].id : i \in 1..Len(form)}
             IN  \A key \in DOMAIN ingest[s].answers : key.uuid /\ key.id \in ids]_vars

\* C35: an invite creates at most one user: no two registrations with the
\* same key both succeed, and no more users exist than the administrator
\* and one per used invite.
C35_InviteCreatesAtMostOneUser ==
    /\ \A r1, r2 \in RegSessions :
          (/\ r1 # r2
           /\ registration[r1].status = 200 /\ registration[r2].status = 200)
          => registration[r1].key # registration[r2].key
    /\ Cardinality(users) <= 1 + Cardinality({k \in InviteKeys : invites[k].used})

\* The token was given out and its session is revoked, expired or deleted.
Dead(token) ==
    /\ token \in 1..(next_token - 1)
    /\ \A r \in sessions : r.token = token => (r.revoked \/ r.expires_at < utcnow)

\* C36: a session that is revoked or has expired stays so, and a request
\* or a logout that presents its cookie is answered 401, with the
\* fingerprint of the session and with a valid bearer token too.
C36_DeadSessionNeverAuthenticates ==
    [][\A token \in 1..MaxTokens :
          Dead(token)
          => /\ Dead(token)'
             /\ (auth' # auth /\ auth'.op \in {"request", "logout"}
                 /\ auth'.request.cookie = token)
                => auth'.result = Unauthenticated]_vars

\* A request with the fingerprint of its session and a valid bearer token
\* was refused, its session being revoked and not expired.
C36_Witness ==
    /\ auth.op = "request"
    /\ auth.result = Unauthenticated
    /\ auth.request.bearer
    /\ \E r \in sessions :
          /\ r.token = auth.request.cookie
          /\ r.revoked /\ ~(r.expires_at < utcnow)
          /\ r.ip = auth.request.ip /\ r.user_agent = auth.request.user_agent

\* The review columns of the row are those of a record not reviewed.
ReviewCleared ==
    /\ record.review_status = "pending"
    /\ record.review_comment = NoValue
    /\ record.reviewed_at = Unset
    /\ record.reviewed_by_user_id = Unset

\* C37: after update_record has committed, the record's review_status is
\* pending and its review comment, reviewer and review time are cleared,
\* and a step that takes the record out of pending is a review_record.
C37_EditResetsReview ==
    [][/\ (\E s \in RecordSessions : record_sessions[s].op = "update"
                                     /\ record_sessions'[s].op = "updated")
          => ReviewCleared'
       /\ (record.review_status = "pending" /\ record'.review_status # "pending")
          => \E s \in RecordSessions : record_sessions'[s].op = "reviewed"
                                       /\ record_sessions[s].op = "none"]_vars

\* The number of requests of the key that allow let pass from time from to
\* time to, both included.
AllowedBetween(log, key, from, to) ==
    Cardinality({i \in DOMAIN log[key] : from <= log[key][i] /\ log[key][i] <= to})

\* C38: in every window of 60 seconds at most limit_per_minute requests of
\* a key have passed; a request is answered 429 exactly when limit_per_minute
\* requests of its key passed within the last 60 seconds, a rejected
\* request is not recorded, and a request leaves the deques and the passed
\* requests of the other keys as they were.
C38_SlidingWindowLimit ==
    /\ [](\A key \in RateKeys, from \in 0..MaxClock :
             AllowedBetween(allowed, key, from, from + WindowSeconds) <= RateLimitRpm)
    /\ [][limited' # limited /\ limited'.key \in RateKeys
          => LET key == limited'.key
                 recent == AllowedBetween(allowed, key, clock - WindowSeconds, clock)
             IN  /\ (limited'.status = 429) <=> (recent = RateLimitRpm)
                 /\ limited'.status = 429
                    => /\ allowed' = allowed
                       /\ Len(limiter_hits'[key]) <= Len(limiter_hits[key])
                 /\ limited'.status = 200
                    => allowed'[key] = Append(allowed[key], clock)
                 /\ \A other \in RateKeys \ {key} :
                       limiter_hits'[other] = limiter_hits[other] /\ allowed'[other] = allowed[other]]_vars

\* A request was answered 429 while a request of its key that passed
\* exactly the window ago is counted, and a request of the other key
\* passes at that time.
C38_Witness ==
    /\ limited.status = 429
    /\ \E i \in DOMAIN allowed[limited.key] :
          allowed[limited.key][i] = clock - WindowSeconds
    /\ \E other \in RateKeys \ {limited.key} :
          Len(DropOld(limiter_hits[other], clock)) < RateLimitRpm

\* C39: a request that reads the merged form of a project or stores a
\* record for it succeeds only if the project is not on the user's banned
\* list, is not soft-deleted, is not closed unless the user is an admin,
\* and is on the user's assigned list when that list is not empty.
C39_NoAccessToBannedDeletedClosed ==
    [][served' # served /\ served'.status = 200
       => LET user == served'.user
              project_id == served'.project_id
          IN  /\ project_id \in AccessProjects
              /\ project_id \notin user_project_access[user].banned
              /\ ~project_rows[project_id].deleted
              /\ (project_rows[project_id].closed => is_admin(user))
              /\ user_project_access[user].assigned # {}
                 => project_id \in user_project_access[user].assigned]_vars

\* An admin was refused a closed project that is on their banned list and
\* on their assigned list.
C39_Witness ==
    /\ served.op = "record"
    /\ served.status = 403
    /\ is_admin(served.user)
    /\ served.project_id \in user_project_access[served.user].banned
    /\ served.project_id \in user_project_access[served.user].assigned
    /\ project_rows[served.project_id].closed
    /\ ~project_rows[served.project_id].deleted

\* C40: for a posted label and value, utils.infer_question_from_value gives
\* the type and the value main._infer_question_from_value has given.
C40_InferenceImplementationsAgree ==
    (infer.phase = "done" /\ ~is_uuid(infer.key))
    => /\ UtilsInferredType(infer.raw) = infer.qdef.type
       /\ UtilsNormalizedValue(infer.raw) = infer.value

\* The questions of a form.
QuestionsOf(form) == {QuestionAt(form, pl) : pl \in Places(form)}

\* The form a session found when its request arrived.
StartForm(s) == merged_project_form(TheProject, ingest[s].start_block)

\* Entry e of a payload is an unknown UUID key for session s.
UnknownUuid(s, e) == e.key.uuid /\ e.key.id \notin IdsIn(StartForm(s))

\* Entry e carries text metadata.
HasMetadata(e) == e.value.k = "meta" /\ HasText(e.value.text)

\* C12: an ingestion (running alone) of an unknown UUID key with text
\* metadata stores the answer under the id of the question of the form with
\* the same normalized label and creates no question; when the form has no
\* such question it appends exactly one question with that UUID as id to
\* "Auto-created" and stores the answer under the UUID.
C12_UnknownUuidWithMetadata ==
    \A s \in Sessions :
        (/\ Ingested(s)
         /\ \A t \in Sessions \ {s} : ingest[t].pc = "start" \/ t \in ingest[s].after)
        => \A i \in 1..Len(ingest[s].payload) :
              LET e == ingest[s].payload[i]
                  same == {q \in QuestionsOf(StartForm(s)) :
                              /\ q.text # NoText
                              /\ norm_label(q.text) = norm_label(e.value.text)}
                  hits == {pl \in Places(custom_questions.sections) :
                              QuestionAt(custom_questions.sections, pl).id = e.key.id}
              IN  (UnknownUuid(s, e) /\ HasMetadata(e))
                  => IF same # {}
                     THEN /\ ingest[s].created = <<>>
                          /\ custom_questions = ingest[s].start_block
                          /\ \E q \in same :
                                /\ IdKey(q.id) \in DOMAIN ingest[s].answers
                                /\ ingest[s].answers[IdKey(q.id)] = e.value.value
                     ELSE /\ ingest[s].created = <<e.key.id>>
                          /\ Cardinality(hits) = 1
                          /\ \A pl \in hits :
                                custom_questions.sections[pl[1]].title = "Auto-created"
                          /\ e.key \in DOMAIN ingest[s].answers
                          /\ ingest[s].answers[e.key] = e.value.value

\* C13: an ingestion whose payload has an unknown UUID key without text
\* metadata ends with status 400 and the unknown-question error naming the
\* first such key.
C13_UnknownUuidWithoutMetadataIsRejected ==
    \A s \in Sessions :
        Ingested(s) =>
           LET bad == {i \in 1..Len(ingest[s].payload) :
                          /\ UnknownUuid(s, ingest[s].payload[i])
                          /\ ~HasMetadata(ingest[s].payload[i])}
           IN  bad # {} =>
                  /\ ingest[s].status = 400
                  /\ ingest[s].detail.kind = "unknown_id"
                  /\ ingest[s].detail.key = ingest[s].payload[SetMin(bad)].key

\* An ingestion was rejected for an unknown UUID whose value is an object
\* without text, and another after it had created a question for a label.
C13_Witness ==
    /\ \E s \in Sessions :
          /\ Ingested(s) /\ ingest[s].detail.kind = "unknown_id"
          /\ \E i \in 1..Len(ingest[s].payload) : ingest[s].payload[i].value.k = "meta"
    /\ \E s \in Sessions :
          /\ Ingested(s) /\ ingest[s].detail.kind = "unknown_id"
          /\ ingest[s].created # <<>>

-----------------------------------------------------------------------------
(* The specifications: the registry; the canonicalizer applied twice; the   *)
(* ingestion of answers and the additions to a custom block.               *)

Init == RegInit /\ uuid_next = 0 /\ CanonIdle /\ IngestIdle /\ InferIdle /\ AuxIdle

Next == RegNext

Spec == Init /\ [][Next]_vars

InitCanon == RegInit /\ uuid_next = 0 /\ CanonInit /\ IngestIdle /\ InferIdle /\ AuxIdle

SpecCanon == InitCanon /\ [][CanonNext]_vars

InitIngest == IngestRegInit /\ uuid_next = SeedUuids /\ CanonIdle /\ IngestInit /\ InferIdle /\ AuxIdle

SpecIngest == InitIngest /\ [][IngestNext]_vars

\* The custom block of one project under the requests of the administrator.
InitBlock == BlockRegInit /\ uuid_next = SeedUuids /\ CanonIdle /\ IngestIdle /\ InferIdle /\ AuxIdle

SpecBlock == InitBlock /\ [][BlockNext]_vars

SpecRead == InitBlock /\ [][ReadNext]_vars

SpecAdmin == InitBlock /\ [][AdminNext]_vars

InitInfer ==
    IngestRegInit /\ uuid_next = SeedUuids /\ CanonIdle /\ IngestIdle /\ InferInit
       /\ AuxIdle

\* The first five models at rest.
CoreIdle ==
    IngestRegInit /\ uuid_next = SeedUuids /\ CanonIdle /\ IngestIdle /\ InferIdle

InitInvite == CoreIdle /\ InviteInit /\ SessionIdle /\ ReviewIdle /\ LimiterIdle /\ AccessIdle

InitLimiter == CoreIdle /\ InviteIdle /\ SessionIdle /\ ReviewIdle /\ LimiterInit /\ AccessIdle

SpecLimiter == InitLimiter /\ [][LimiterNext]_vars

InitAccess == CoreIdle /\ InviteIdle /\ SessionIdle /\ ReviewIdle /\ LimiterIdle /\ AccessInit

SpecAccess == InitAccess /\ [][AccessNext]_vars

InitReview == CoreIdle /\ InviteIdle /\ SessionIdle /\ ReviewInit /\ LimiterIdle /\ AccessIdle

SpecReview == InitReview /\ [][ReviewNext]_vars

InitSession == CoreIdle /\ InviteIdle /\ SessionInit /\ ReviewIdle /\ LimiterIdle /\ AccessIdle

SpecSession == InitSession /\ [][SessionNext]_vars

SpecInvite == InitInvite /\ [][InviteNext]_vars

SpecInfer == InitInfer /\ [][InferNext]_vars

=============================================================================
